---- MODULE Spec2Model ----
(***************************************************************************)
(* Settings backup / restore pipeline of the ResuAI plugin                 *)
(* (settings-backup-v3: export.ts, storage shim, import.ts, and the legacy *)
(* import variant).                                                        *)
(*                                                                         *)
(* Strings are sequences of tokens: a token is a word without '.' or '/',  *)
(* or one of the separators "." and "/".  "assets/icon1.png" is            *)
(* <<"assets", "/", "icon1", ".", "png">>.  Objects (the database, module  *)
(* and persona objects) are functions from the set of keys they own.       *)
(***************************************************************************)
EXTENDS Integers, Sequences, FiniteSets, TLC

VARIABLES
    db,            \* the host's live database object (getDatabase / setDatabase)
    assetStore,    \* the host's asset storage: storage key -> bytes
    isTauri,       \* window.__TAURI__ / __TAURI_INTERNALS__ defined
    hasForage,     \* globalThis.forageStorage (key-value store) present
    variant,       \* installed import handler: "v3" (import.ts) or "legacy"
    nextKey,       \* host counter behind the keys saveAsset assigns
    exportRun,     \* locals of the running exportSettings call
    archive,       \* the ZIP file the last export delivered
    exportedFrom,  \* history: database and asset storage the archive was exported from
    importRun,     \* locals of the running importSettings onchange handler
    faults,        \* failures the environment has injected so far
    shim,          \* one call of the storage shim's getItem: inputs, position, result
    themes,        \* theme-preset plugin: plugin storage, argument storage, last call
    auto,          \* theme-preset plugin: auto-switch module state and window timers
    page,          \* backup plugin UI: document, injection interval, unload
    bundle         \* plugin builder: source tree and the run of buildDependencyOrder

\* the state of the backup plugin's export and import handlers
backupVars == <<db, assetStore, isTauri, hasForage, variant, nextKey,
                exportRun, archive, exportedFrom, importRun, faults, shim>>

\* the state of the other programs of the repository
sideVars == <<themes, auto, page, bundle>>

vars == <<backupVars, sideVars>>

----------------------------------------------------------------------------
(* Bounds of the model *)

\* longest asset list of module m1 in an initial database
MaxAssets == 2
\* most personas in an initial database
MaxPersonas == 2
\* most failures (a read, a write, an encoding that goes wrong) the environment injects
MaxFaults == 1

----------------------------------------------------------------------------
(* JavaScript values *)

Undefined == "undefined"

EmptyObject == [k \in {} |-> Undefined]

Has(o, k) == k \in DOMAIN o

\* o[k] of JavaScript: undefined when the key is absent
Get(o, k) == IF k \in DOMAIN o THEN o[k] ELSE Undefined

\* delete o[k]
Delete(o, k) == [x \in DOMAIN o \ {k} |-> o[x]]

\* o[k] = v
Put(o, k, v) == [x \in DOMAIN o \cup {k} |-> IF x = k THEN v ELSE o[x]]

\* the database keys that hold a plain string; only these can hold undefined
ScalarKeys == {"characters", "characterOrder", "account", "theme",
               "exportDate", "exportVersion", "pluginName"}

IsUndefined(o, k) == k \in ScalarKeys /\ k \in DOMAIN o /\ o[k] = Undefined

\* truthiness of the property k of o
Truthy(o, k) == k \in DOMAIN o /\ ~IsUndefined(o, k)

StartsWith(s, pre) ==
    Len(s) >= Len(pre) /\ SubSeq(s, 1, Len(pre)) = pre

EndsWith(s, suf) ==
    Len(s) >= Len(suf) /\ SubSeq(s, Len(s) - Len(suf) + 1, Len(s)) = suf

\* String.prototype.lastIndexOf, 1-based; 0 when the token does not occur
LastIndexOf(s, tok) ==
    IF \E i \in 1..Len(s) : s[i] = tok
    THEN CHOOSE i \in 1..Len(s) : s[i] = tok /\ \A j \in (i+1)..Len(s) : s[j] # tok
    ELSE 0

\* 1-based index of the first occurrence; 0 when the token does not occur
IndexOf(s, tok) ==
    IF \E i \in 1..Len(s) : s[i] = tok
    THEN CHOOSE i \in 1..Len(s) : s[i] = tok /\ \A j \in 1..(i-1) : s[j] # tok
    ELSE 0

\* String.prototype.split(sep)
RECURSIVE Split(_, _)
Split(s, sep) ==
    LET i == IndexOf(s, sep)
    IN IF i = 0 THEN <<s>>
       ELSE <<SubSeq(s, 1, i - 1)>> \o Split(SubSeq(s, i + 1, Len(s)), sep)

\* the decimal numerals of the integers the model meets, each one token
Digits == <<"0", "1", "2", "3", "4", "5", "6", "7", "8", "9",
            "10", "11", "12", "13", "14", "15", "16", "17", "18", "19",
            "20", "21", "22", "23", "24", "25", "26", "27", "28", "29">>

\* `${index}` of a small non-negative integer
ToStr(n) == Digits[n + 1]

IsDigits(tok) == \E n \in 1..Len(Digits) : Digits[n] = tok

\* parseInt(tok, 10)
ParseInt(tok) == (CHOOSE n \in 1..Len(Digits) : Digits[n] = tok) - 1

\* btoa over the byte sequence: base64 characters as their 6-bit values, 64 for '='
RECURSIVE Btoa(_)
Btoa(b) ==
    IF Len(b) = 0 THEN <<>>
    ELSE IF Len(b) = 1
         THEN <<b[1] \div 4, (b[1] % 4) * 16, 64, 64>>
    ELSE IF Len(b) = 2
         THEN <<b[1] \div 4, (b[1] % 4) * 16 + (b[2] \div 16), (b[2] % 16) * 4, 64>>
    ELSE <<b[1] \div 4, (b[1] % 4) * 16 + (b[2] \div 16),
           (b[2] % 16) * 4 + (b[3] \div 64), b[3] % 64>>
         \o Btoa(SubSeq(b, 4, Len(b)))

\* JSZip's decoding of an entry added with {base64: true}
RECURSIVE Base64Decode(_)
Base64Decode(s) ==
    IF Len(s) < 4 THEN <<>>
    ELSE LET first  == <<s[1] * 4 + (s[2] \div 16)>>
             second == IF s[3] = 64 THEN <<>>
                       ELSE <<(s[2] % 16) * 16 + (s[3] \div 4)>>
             third  == IF s[3] = 64 \/ s[4] = 64 THEN <<>>
                       ELSE <<(s[3] % 4) * 64 + s[4]>>
         IN first \o second \o third \o Base64Decode(SubSeq(s, 5, Len(s)))

\* JSON.stringify then JSON.parse of an object: properties whose value is
\* undefined are not written
JSONstringify(o) ==
    [kind |-> "json",
     value |-> [k \in {x \in DOMAIN o : ~IsUndefined(o, x)} |-> o[k]]]

JSONparse(text) == text.value

----------------------------------------------------------------------------
(* The ZIP archive (JSZip): settings.json and the file entries in insertion *)
(* order; folder entries are left out, every reader filters them away.      *)

EmptyZip ==
    [isZip |-> TRUE, hasSettings |-> FALSE,
     settingsText |-> [kind |-> "none", value |-> EmptyObject],
     files |-> <<>>]

NoArchive ==
    [isZip |-> FALSE, hasSettings |-> FALSE,
     settingsText |-> [kind |-> "none", value |-> EmptyObject],
     files |-> <<>>]

PathIndex(files, path) ==
    IF \E i \in 1..Len(files) : files[i].path = path
    THEN CHOOSE i \in 1..Len(files) : files[i].path = path
    ELSE 0

\* folder.file(name, data): a new entry, or the data of the entry of that name replaced
ZipFile(files, path, data) ==
    LET i == PathIndex(files, path)
    IN IF i = 0 THEN Append(files, [path |-> path, data |-> data])
       ELSE [files EXCEPT ![i] = [path |-> path, data |-> data]]

ZipHas(z, path) == PathIndex(z.files, path) # 0

ZipData(z, path) == z.files[PathIndex(z.files, path)].data

\* Object.keys(zip.files).filter(name => name.startsWith(prefix) && !dir)
RECURSIVE FilesUnder(_, _)
FilesUnder(files, prefix) ==
    IF files = <<>> THEN <<>>
    ELSE (IF StartsWith(files[1].path, prefix) THEN <<files[1].path>> ELSE <<>>)
         \o FilesUnder(Tail(files), prefix)

----------------------------------------------------------------------------
(* The databases and the asset storage the model starts from *)

Slash == <<"/">>
Dot == <<".">>
AssetsPrefix == <<"assets", "/">>

\* module asset tuples [assetId, storageKey, extension]
AssetIcon1 == << <<"icon1">>, <<"assets", "/", "icon1", ".", "png">>, <<"png">> >>
\* the asset id already carries its extension
AssetLogo  == << <<"logo", ".", "png">>, <<"assets", "/", "k2">>, <<"png">> >>
\* no extension recorded
AssetSound == << <<"sound">>, <<"assets", "/", "k3">>, <<>> >>
\* the asset of module m2: the asset id of AssetIcon1, other bytes
AssetOther == << <<"icon1">>, <<"assets", "/", "k4">>, <<"png">> >>

AssetPool == {AssetIcon1, AssetLogo, AssetSound}

AssetLists == UNION {[1..n -> AssetPool] : n \in 0..MaxAssets}

Module(id, fields) == [k \in {"id", "name"} \cup DOMAIN fields |->
                          IF k = "id" THEN id
                          ELSE IF k = "name" THEN <<"module">> \o id
                          ELSE fields[k]]

WithAssets(list) == [k \in {"assets"} |-> list]

ModuleM2 == Module(<<"m2">>, WithAssets(<<AssetOther>>))

ModuleLists ==
    {<<Module(<<"m1">>, WithAssets(l)), ModuleM2>> : l \in AssetLists}
    \cup {<<Module(<<"m1">>, EmptyObject), ModuleM2>>}

IconPng == <<"assets", "/", "persona0", ".", "png">>
IconJpg == <<"assets", "/", "face", ".", "jpg">>
IconUrl == <<"https:", "/", "/", "cdn", "/", "face", ".", "png">>

PersonaPool ==
    {[name |-> "anon"],
     [name |-> "alt", icon |-> IconJpg],
     [name |-> "web", icon |-> IconUrl]}

PersonaLists == UNION {[1..n -> PersonaPool] : n \in 0..MaxPersonas}

BgLocal == <<"assets", "/", "bg", ".", "webp">>
BgNoDot == <<"assets", "/", "bgraw">>
BgUrl   == <<"https:", "/", "/", "cdn", "/", "bg", ".", "png">>

\* the database of the spec's concrete scenario, with a local background
BaseDatabase ==
    [characters |-> "keepme", characterOrder |-> "order-live",
     account |-> "token-x", theme |-> "dark",
     modules |-> <<Module(<<"m1">>, WithAssets(<<AssetIcon1>>))>>,
     personas |-> <<[name |-> "me", icon |-> IconPng]>>,
     customBackground |-> BgLocal]

\* modules and personas are those of the concrete scenario
HasScenarioAssets(d) ==
    d.modules = BaseDatabase.modules /\ d.personas = BaseDatabase.personas

\* the base database with one part varied at a time
Databases ==
    {Put(BaseDatabase, "modules", m) : m \in ModuleLists}
    \cup {Put(BaseDatabase, "personas", p) : p \in PersonaLists}
    \cup {Put(BaseDatabase, "customBackground", b) : b \in {BgNoDot, BgUrl}}
    \cup {Delete(BaseDatabase, "customBackground"),
          Delete(BaseDatabase, "account"),
          Delete(Delete(BaseDatabase, "characters"), "characterOrder")}

\* the bytes behind every storage key an initial database can name
InitialStore ==
    (AssetIcon1[2] :> <<137, 80, 78>>) @@ (AssetLogo[2] :> <<255>>)
    @@ (AssetSound[2] :> <<0, 16>>) @@ (AssetOther[2] :> <<71, 73, 70, 56>>)
    @@ (IconPng :> <<1>>) @@ (IconJpg :> <<2, 3>>)
    @@ (BgLocal :> <<9, 9, 9>>) @@ (BgNoDot :> <<7, 7>>)

----------------------------------------------------------------------------
(* Storage shim, read side, as the export loops see it *)

\* what storage.getItem(key) can hand to the caller when nothing goes wrong:
\* the stored bytes, as a Uint8Array or as a string (data URL, bare base64)
StoredForms(key) ==
    IF key \in DOMAIN assetStore
    THEN {[kind |-> "Uint8Array", bytes |-> assetStore[key]],
          [kind |-> "dataUrl", parts |-> <<<<>>, Btoa(assetStore[key])>>],
          [kind |-> "base64", text |-> Btoa(assetStore[key])]}
    ELSE {[kind |-> "null"]}

\* the failures of one asset: not found, an unknown data format, a data URL
\* without a comma, an exception thrown inside the iteration
ReadFaults ==
    {[kind |-> "null"], [kind |-> "object"],
     [kind |-> "dataUrl", parts |-> << <<>> >>], [kind |-> "throw"]}

GetItemOutcomes(key, mayFail) ==
    StoredForms(key) \cup (IF mayFail THEN ReadFaults ELSE {})

\* the "Convert to base64" block: ok is FALSE where the code leaves the iteration
ToBase64(outcome) ==
    CASE outcome.kind = "Uint8Array" -> [ok |-> TRUE, data |-> Btoa(outcome.bytes)]
      [] outcome.kind = "dataUrl" ->
            IF Len(outcome.parts) < 2 THEN [ok |-> FALSE, data |-> <<>>]
            ELSE [ok |-> TRUE, data |-> outcome.parts[2]]
      [] outcome.kind = "base64" -> [ok |-> TRUE, data |-> outcome.text]
      [] OTHER -> [ok |-> FALSE, data |-> <<>>]

----------------------------------------------------------------------------
(* exportSettings *)

ExportIdle ==
    [pc |-> "idle", excludeAccount |-> TRUE, db |-> EmptyObject,
     queue |-> <<>>, personaIcons |-> <<>>, zip |-> EmptyZip,
     alert |-> "none", tried |-> <<>>,
     \* history of the run: the module asset work list, the positions in it
     \* that failed, and whether anything else failed
     items |-> <<>>, failed |-> {}, otherFailed |-> FALSE]

\* moduleAssets[module.id] = module.assets, as Object.entries lists it
RECURSIVE CollectModuleAssets(_, _)
CollectModuleAssets(modules, acc) ==
    IF modules = <<>> THEN acc
    ELSE LET m == Head(modules)
             at == IF \E i \in 1..Len(acc) : acc[i].moduleId = m.id
                   THEN CHOOSE i \in 1..Len(acc) : acc[i].moduleId = m.id
                   ELSE 0
             next == IF ~Has(m, "assets") THEN acc
                     ELSE IF at = 0
                          THEN Append(acc, [moduleId |-> m.id, assets |-> m.assets])
                          ELSE [acc EXCEPT ![at].assets = m.assets]
         IN CollectModuleAssets(Tail(modules), next)

\* the nested loops over modules and their assets, in loop order
RECURSIVE AssetQueue(_)
AssetQueue(entries) ==
    IF entries = <<>> THEN <<>>
    ELSE [i \in 1..Len(entries[1].assets) |->
             [moduleId |-> entries[1].moduleId, asset |-> entries[1].assets[i]]]
         \o AssetQueue(Tail(entries))

\* a persona icon is collected when it is a local storage reference
IsLocalIcon(persona) ==
    Has(persona, "icon") /\ persona.icon # <<>> /\ StartsWith(persona.icon, AssetsPrefix)

RECURSIVE CollectPersonaIcons(_, _)
CollectPersonaIcons(personas, i) ==
    IF i > Len(personas) THEN <<>>
    ELSE (IF IsLocalIcon(personas[i])
          THEN <<[index |-> i - 1, icon |-> personas[i].icon]>>
          ELSE <<>>)
         \o CollectPersonaIcons(personas, i + 1)

HasLocalBackground(d) ==
    Has(d, "customBackground") /\ d.customBackground # <<>>
    /\ StartsWith(d.customBackground, AssetsPrefix)

\* const { assets, ...moduleWithoutAssets } = module
\* StripAssets with the destructuring lost: the module objects travel whole
StripAssetsKeeping(modules) == modules

StripAssets(modules) == [i \in 1..Len(modules) |-> Delete(modules[i], "assets")]

\* SettingsBackup with the excludeAccount branch lost: the account always travels
SettingsBackupKeepsAccount(d, excludeAccount) ==
    LET s1 == Delete(Delete(d, "characters"), "characterOrder")
        s3 == IF Has(s1, "modules") THEN Put(s1, "modules", StripAssets(s1.modules)) ELSE s1
        s4 == Put(Put(Put(s3, "exportDate", "now"), "exportVersion", "3.1.0"),
                  "pluginName", "settingsbackup-v3")
    IN Put(s4, "accountExcluded", excludeAccount)

\* the trimmed snapshot with the export metadata
SettingsBackup(d, excludeAccount) ==
    LET s1 == Delete(Delete(d, "characters"), "characterOrder")
        s2 == IF excludeAccount THEN Delete(s1, "account") ELSE s1
        s3 == IF Has(s2, "modules") THEN Put(s2, "modules", StripAssets(s2.modules)) ELSE s2
        s4 == Put(Put(Put(s3, "exportDate", "now"), "exportVersion", "3.1.0"),
                  "pluginName", "settingsbackup-v3")
    IN Put(s4, "accountExcluded", excludeAccount)

\* the phase the export continues with once the earlier loops are through
ExportPhase(queue, personaIcons, d) ==
    IF queue # <<>> THEN "moduleAssets"
    ELSE IF personaIcons # <<>> THEN "personaIcons"
    ELSE IF HasLocalBackground(d) THEN "customBackground"
    ELSE "generate"

ExportStarted(d, excludeAccount) ==
    LET entries == IF Has(d, "modules") THEN CollectModuleAssets(d.modules, <<>>) ELSE <<>>
        icons == IF Has(d, "personas") THEN CollectPersonaIcons(d.personas, 1) ELSE <<>>
        queue == AssetQueue(entries)
    IN [ExportIdle EXCEPT
          !.pc = ExportPhase(queue, icons, d),
          !.excludeAccount = excludeAccount,
          !.db = d,
          !.queue = queue,
          !.items = queue,
          !.personaIcons = icons,
          !.zip = [EmptyZip EXCEPT
                     !.hasSettings = TRUE,
                     !.settingsText = JSONstringify(SettingsBackup(d, excludeAccount))]]

\* the archive file name of a module asset
ModuleAssetFilename(assetId, assetExt) ==
    LET ext == IF assetExt = <<>> THEN <<"png">> ELSE assetExt
    IN IF EndsWith(assetId, Dot \o ext) THEN assetId ELSE assetId \o Dot \o ext

ModuleAssetPath(moduleId, filename) ==
    <<"module-assets", "/">> \o moduleId \o Slash \o filename

PersonaIconPath(index, ext) ==
    <<"persona-icons", "/", "persona-", ToStr(index), ".">> \o ext

BackgroundPath(ext) == <<"custom-background", "/", "background", ".">> \o ext

\* the module asset loop without its per-asset try/catch and continue: a
\* failure ends the loop
AfterModuleAssetAborting(run, outcome) ==
    LET item == Head(run.queue)
        enc == ToBase64(outcome)
        path == ModuleAssetPath(item.moduleId,
                                ModuleAssetFilename(item.asset[1], item.asset[3]))
        rest == IF enc.ok THEN Tail(run.queue) ELSE <<>>
    IN [run EXCEPT
          !.queue = rest,
          !.pc = ExportPhase(rest, run.personaIcons, run.db),
          !.failed = IF outcome \in ReadFaults
                     THEN @ \cup {Len(run.items) - Len(run.queue) + 1} ELSE @,
          !.zip.files = IF enc.ok THEN ZipFile(@, path, Base64Decode(enc.data)) ELSE @]

\* one iteration of the module asset loop
AfterModuleAsset(run, outcome) ==
    LET item == Head(run.queue)
        assetId == item.asset[1]
        storageKey == item.asset[2]
        enc == ToBase64(outcome)
        path == ModuleAssetPath(item.moduleId, ModuleAssetFilename(assetId, item.asset[3]))
        rest == Tail(run.queue)
    IN [run EXCEPT
          !.queue = rest,
          !.pc = ExportPhase(rest, run.personaIcons, run.db),
          !.failed = IF outcome \in ReadFaults
                     THEN @ \cup {Len(run.items) - Len(run.queue) + 1} ELSE @,
          !.zip.files = IF assetId # <<>> /\ storageKey # <<>> /\ enc.ok
                        THEN ZipFile(@, path, Base64Decode(enc.data))
                        ELSE @]

\* one iteration of the persona icon loop
AfterPersonaIcon(run, outcome) ==
    LET info == Head(run.personaIcons)
        enc == ToBase64(outcome)
        rest == Tail(run.personaIcons)
    IN [run EXCEPT
          !.personaIcons = rest,
          !.pc = ExportPhase(<<>>, rest, run.db),
          !.otherFailed = @ \/ outcome \in ReadFaults,
          !.zip.files = IF enc.ok
                        THEN ZipFile(@, PersonaIconPath(info.index, <<"png">>),
                                     Base64Decode(enc.data))
                        ELSE @]

\* the extension of the custom background reference
BackgroundExt(key) ==
    LET parts == Split(key, ".")
    IN IF Len(parts) > 1 THEN parts[Len(parts)] ELSE <<"png">>

AfterBackground(run, outcome) ==
    LET enc == ToBase64(outcome)
    IN [run EXCEPT
          !.pc = "generate",
          !.otherFailed = @ \/ outcome \in ReadFaults,
          !.zip.files = IF enc.ok
                        THEN ZipFile(@, BackgroundPath(BackgroundExt(run.db.customBackground)),
                                     Base64Decode(enc.data))
                        ELSE @]

\* the export button: getDatabase, the collections, settings.json
ExportStart ==
    /\ exportRun.pc = "idle"
    /\ importRun.pc = "idle"
    /\ \E excludeAccount \in BOOLEAN :
          exportRun' = ExportStarted(db, excludeAccount)
    /\ exportedFrom' = [db |-> db, store |-> assetStore]
    /\ UNCHANGED <<sideVars, db, assetStore, isTauri, hasForage, shim, variant, nextKey, archive, importRun,
                   faults>>

ExportModuleAsset ==
    /\ exportRun.pc = "moduleAssets"
    /\ \E outcome \in GetItemOutcomes(Head(exportRun.queue).asset[2],
                                      faults < MaxFaults) :
          /\ exportRun' = AfterModuleAsset(exportRun, outcome)
          /\ faults' = faults + (IF outcome \in ReadFaults THEN 1 ELSE 0)
    /\ UNCHANGED <<sideVars, db, assetStore, isTauri, hasForage, shim, variant, nextKey, archive,
                   exportedFrom, importRun>>

ExportPersonaIcon ==
    /\ exportRun.pc = "personaIcons"
    /\ \E outcome \in GetItemOutcomes(Head(exportRun.personaIcons).icon,
                                      faults < MaxFaults) :
          /\ exportRun' = AfterPersonaIcon(exportRun, outcome)
          /\ faults' = faults + (IF outcome \in ReadFaults THEN 1 ELSE 0)
    /\ UNCHANGED <<sideVars, db, assetStore, isTauri, hasForage, shim, variant, nextKey, archive,
                   exportedFrom, importRun>>

ExportBackground ==
    /\ exportRun.pc = "customBackground"
    /\ \E outcome \in GetItemOutcomes(exportRun.db.customBackground,
                                      faults < MaxFaults) :
          /\ exportRun' = AfterBackground(exportRun, outcome)
          /\ faults' = faults + (IF outcome \in ReadFaults THEN 1 ELSE 0)
    /\ UNCHANGED <<sideVars, db, assetStore, isTauri, hasForage, shim, variant, nextKey, archive,
                   exportedFrom, importRun>>

\* zip.generateAsync: the blob, or the rejection the top-level catch turns into the alert
ExportGenerate ==
    /\ exportRun.pc = "generate"
    /\ \E ok \in {TRUE} \cup (IF faults < MaxFaults THEN {FALSE} ELSE {}) :
          /\ exportRun' = IF ok THEN [exportRun EXCEPT !.pc = "deliver"]
                          ELSE [exportRun EXCEPT !.pc = "done", !.alert = "exportFailed",
                                                 !.otherFailed = TRUE]
          /\ faults' = faults + (IF ok THEN 0 ELSE 1)
    /\ UNCHANGED <<sideVars, db, assetStore, isTauri, hasForage, shim, variant, nextKey, archive,
                   exportedFrom, importRun>>

\* the strategies the download cascade attempts, and how it ends
\* Strategy 1: navigator.share, when present and canShare lets the file through
ShareOutcome(hasShare, canShare, shareResult) ==
    IF ~hasShare \/ ~canShare THEN "unavailable"
    ELSE IF shareResult = "ok" THEN "ok"
    ELSE IF shareResult = "abort" THEN "cancelled"
    ELSE "failed"

\* the cascade with the !downloadSuccessful guards lost: every strategy runs
DeliveryUnguarded(hasShare, canShare, shareResult, clickOk, openOk) ==
    LET s1 == ShareOutcome(hasShare, canShare, shareResult)
        s2 == IF clickOk THEN "ok" ELSE "failed"
        s3 == IF openOk THEN "ok" ELSE "failed"
    IN [tried |-> <<[name |-> "share", outcome |-> s1],
                    [name |-> "anchor", outcome |-> s2],
                    [name |-> "window", outcome |-> s3]>>,
        by |-> IF s1 = "ok" THEN "share"
               ELSE IF s1 = "cancelled" THEN "aborted"
               ELSE IF clickOk THEN "anchor"
               ELSE IF openOk THEN "window"
               ELSE "none"]

\* the download cascade: the strategies it went through in order, each with
\* how it ended, and the one that set downloadSuccessful
Delivery(hasShare, canShare, shareResult, clickOk, openOk) ==
    LET s1 == ShareOutcome(hasShare, canShare, shareResult)
        t1 == <<[name |-> "share", outcome |-> s1]>>
        ok1 == s1 \in {"ok", "cancelled"}
        t2 == IF ok1 THEN t1
              ELSE Append(t1, [name |-> "anchor",
                               outcome |-> IF clickOk THEN "ok" ELSE "failed"])
        ok2 == ok1 \/ clickOk
        t3 == IF ok2 THEN t2
              ELSE Append(t2, [name |-> "window",
                               outcome |-> IF openOk THEN "ok" ELSE "failed"])
    IN [tried |-> t3,
        by |-> IF s1 = "ok" THEN "share"
               ELSE IF s1 = "cancelled" THEN "aborted"
               ELSE IF clickOk THEN "anchor"
               ELSE IF openOk THEN "window"
               ELSE "none"]

ExportDeliver ==
    /\ exportRun.pc = "deliver"
    /\ \E hasShare, canShare, clickOk, openOk \in BOOLEAN,
          shareResult \in {"ok", "abort", "error"} :
          LET d == Delivery(hasShare, canShare, shareResult, clickOk, openOk)
          IN /\ exportRun' =
                   [exportRun EXCEPT
                      !.pc = "done",
                      !.tried = d.tried,
                      !.alert = IF d.by = "none" THEN "downloadFailed"
                                ELSE IF d.by \in {"share", "aborted"} THEN "none"
                                ELSE "exportSuccess"]
             /\ archive' = IF d.by \in {"share", "anchor", "window"}
                           THEN exportRun.zip ELSE archive
    /\ UNCHANGED <<sideVars, db, assetStore, isTauri, hasForage, shim, variant, nextKey,
                   exportedFrom, importRun, faults>>

----------------------------------------------------------------------------
(* Storage shim, write side, and the host's asset-save primitive *)

\* the key the host's saveAsset assigns to its n-th write
HostKey(n) == <<"assets", "/", "saved-", ToStr(n)>>

\* setItem without the Tauri branch's throw: the call completes, nothing written
SetItemSilentInTauri(store, key, value, writeOk) ==
    IF hasForage \/ ~isTauri
    THEN [thrown |-> ~writeOk, store |-> IF writeOk THEN Put(store, key, value) ELSE store,
          via |-> IF hasForage THEN "forage" ELSE "indexedDB",
          error |-> IF writeOk THEN "none" ELSE "backend"]
    ELSE [thrown |-> FALSE, store |-> store, via |-> "none", error |-> "none"]

\* createStorage().setItem: the store after the write, or thrown; writeOk is
\* whether the backing store (forageStorage, IndexedDB) accepts the write
SetItem(store, key, value, writeOk) ==
    IF hasForage
    THEN [thrown |-> ~writeOk, store |-> IF writeOk THEN Put(store, key, value) ELSE store,
          via |-> "forage", error |-> IF writeOk THEN "none" ELSE "backend"]
    ELSE IF isTauri
    THEN [thrown |-> TRUE, store |-> store, via |-> "none", error |-> "notSupported"]
    ELSE [thrown |-> ~writeOk, store |-> IF writeOk THEN Put(store, key, value) ELSE store,
          via |-> "indexedDB", error |-> IF writeOk THEN "none" ELSE "backend"]

\* the restore step recording assets/<id>.<ext> instead of the key saveAsset returned
StoreAssetIgnoringKey(store, n, bytes, fallbackKey, saveOk, writeOk) ==
    IF saveOk
    THEN [thrown |-> FALSE, key |-> fallbackKey, store |-> Put(store, HostKey(n), bytes),
          n |-> n + 1]
    ELSE IF isTauri
    THEN [thrown |-> TRUE, key |-> <<>>, store |-> store, n |-> n]
    ELSE LET w == SetItem(store, fallbackKey, bytes, writeOk)
         IN [thrown |-> w.thrown, key |-> fallbackKey, store |-> w.store, n |-> n]

\* the try/catch around saveAsset with the manual fallback: saveOk is whether
\* saveAsset resolves, writeOk whether the fallback's backing store accepts
StoreAsset(store, n, bytes, fallbackKey, saveOk, writeOk) ==
    IF saveOk
    THEN [thrown |-> FALSE, key |-> HostKey(n), store |-> Put(store, HostKey(n), bytes),
          n |-> n + 1]
    ELSE IF isTauri
    THEN [thrown |-> TRUE, key |-> <<>>, store |-> store, n |-> n]
    ELSE LET w == SetItem(store, fallbackKey, bytes, writeOk)
         IN [thrown |-> w.thrown, key |-> fallbackKey, store |-> w.store, n |-> n]

\* how restoring one asset can go: [readOk, saveOk, writeOk]; only the first is
\* free of failures
RestoreOutcomes(mayFail) ==
    {<<TRUE, TRUE, TRUE>>}
    \cup (IF mayFail
          THEN {<<FALSE, TRUE, TRUE>>, <<TRUE, FALSE, TRUE>>, <<TRUE, FALSE, FALSE>>}
          ELSE {})

----------------------------------------------------------------------------
(* importSettings: the onchange handler of the file picker *)

ImportIdle ==
    [pc |-> "idle", zip |-> NoArchive, importedSettings |-> EmptyObject,
     hasCurrentAccount |-> FALSE, preserveAccount |-> FALSE,
     currentCharacters |-> Undefined, currentCharacterOrder |-> Undefined,
     currentAccount |-> Undefined,
     moduleAssets |-> <<>>, assetFiles |-> <<>>, iconFiles |-> <<>>, bgFiles |-> <<>>,
     alert |-> "none",
     \* history of the run
     setDatabaseCalls |-> 0, written |-> {}, dropped |-> {}, saveFailed |-> {},
     processed |-> {}, declined |-> FALSE, round |-> 1, first |-> EmptyObject,
     before |-> [db |-> EmptyObject, store |-> EmptyObject], dbRead |-> EmptyObject]

\* hand-made archives: what an operator can pick besides a delivered export
HandmadeSettings ==
    [characters |-> "from-backup", characterOrder |-> "order-backup",
     account |-> "token-backup", theme |-> "light",
     modules |-> <<Module(<<"m1">>, WithAssets(<<AssetIcon1>>)),
                   Module(<<"m3">>, EmptyObject)>>,
     personas |-> <<[name |-> "me", icon |-> IconPng]>>,
     customBackground |-> BgLocal,
     exportDate |-> "then", exportVersion |-> "3.0.0", pluginName |-> "other"]

HandmadeFiles ==
    <<[path |-> ModuleAssetPath(<<"m1">>, <<"icon1", ".", "png">>), data |-> <<5, 6>>],
      [path |-> ModuleAssetPath(<<"m1">>, <<"noext">>), data |-> <<4>>],
      [path |-> ModuleAssetPath(<<"m1">>, <<"deep", "/", "x", ".", "png">>), data |-> <<3>>],
      [path |-> <<"persona-icons", "/", "avatar", ".", "png">>, data |-> <<8>>],
      [path |-> PersonaIconPath(4, <<"png">>), data |-> <<8, 8>>],
      [path |-> BackgroundPath(<<"webp">>), data |-> <<9>>]>>

HandmadeArchives ==
    {NoArchive,
     [EmptyZip EXCEPT !.files = HandmadeFiles],
     [EmptyZip EXCEPT !.hasSettings = TRUE,
                      !.settingsText = [kind |-> "garbage", value |-> EmptyObject]],
     [EmptyZip EXCEPT !.hasSettings = TRUE,
                      !.settingsText = JSONstringify(HandmadeSettings),
                      !.files = HandmadeFiles]}

\* Readable without the settings.json checks
ReadableAnyZip(z) == z.isZip

\* loadAsync, zip.file('settings.json') and JSON.parse all succeed
Readable(z) == z.isZip /\ z.hasSettings /\ z.settingsText.kind = "json"

\* module-assets/{moduleId}/{filename}: the parts, or ok = FALSE where the code
\* warns and continues
ParseAssetPath(path) ==
    LET pathParts == Split(path, "/")
        filename == pathParts[3]
        lastDotIndex == LastIndexOf(filename, ".")
    IN IF Len(pathParts) # 3 THEN [ok |-> FALSE, moduleId |-> <<>>, assetId |-> <<>>, ext |-> <<>>]
       ELSE IF lastDotIndex = 0
            THEN [ok |-> FALSE, moduleId |-> <<>>, assetId |-> <<>>, ext |-> <<>>]
       ELSE [ok |-> TRUE, moduleId |-> pathParts[2],
             assetId |-> SubSeq(filename, 1, lastDotIndex - 1),
             ext |-> SubSeq(filename, lastDotIndex + 1, Len(filename))]

\* filename.match(/^persona-(\d+)\.(.+)$/)
ParseIconPath(path) ==
    LET filename == Split(path, "/")[2]
    IN IF Len(filename) >= 4 /\ filename[1] = "persona-" /\ IsDigits(filename[2])
          /\ filename[3] = "."
       THEN [ok |-> TRUE, personaIndex |-> ParseInt(filename[2]),
             ext |-> SubSeq(filename, 4, Len(filename))]
       ELSE [ok |-> FALSE, personaIndex |-> 0, ext |-> <<>>]

\* filename.split('.').pop() || 'png'
ParseBackgroundExt(path) ==
    LET filename == Split(path, "/")[2]
        parts == Split(filename, ".")
        last == parts[Len(parts)]
    IN IF last = <<>> THEN <<"png">> ELSE last

\* moduleAssets[moduleId].push(entry)
GroupPush(acc, moduleId, entry) ==
    IF \E i \in 1..Len(acc) : acc[i].moduleId = moduleId
    THEN LET at == CHOOSE i \in 1..Len(acc) : acc[i].moduleId = moduleId
         IN [acc EXCEPT ![at].assets = Append(@, entry)]
    ELSE Append(acc, [moduleId |-> moduleId, assets |-> <<entry>>])

\* moduleAssets[module.id], the empty list when there is none
GroupOf(acc, moduleId) ==
    IF \E i \in 1..Len(acc) : acc[i].moduleId = moduleId
    THEN acc[CHOOSE i \in 1..Len(acc) : acc[i].moduleId = moduleId].assets
    ELSE <<>>

\* the phase the import continues with once the earlier loops are through
\* the handler going to the commit as soon as the module assets are through
ImportPhaseEarlyCommit(assetFiles, iconFiles, bgFiles) ==
    IF assetFiles # <<>> THEN "moduleAssets" ELSE "commit"

ImportPhase(assetFiles, iconFiles, bgFiles) ==
    IF assetFiles # <<>> THEN "moduleAssets"
    ELSE IF iconFiles # <<>> THEN "personaIcons"
    ELSE IF variant = "v3" /\ bgFiles # <<>> THEN "customBackground"
    ELSE "commit"

\* the per-asset catch rethrowing: the error reaches the top-level catch
IterationAborts(run, path, nextPc) ==
    [run EXCEPT !.pc = "failed", !.dropped = @ \cup {path}]

\* the per-asset catch: the warning is logged and the loop goes on
IterationFailed(run, path, nextPc) ==
    [run EXCEPT !.pc = nextPc, !.dropped = @ \cup {path}]

\* one iteration of the module asset loop, with the storage it leaves
AfterAssetFile(run, store, n, outcome) ==
    LET path == Head(run.assetFiles)
        rest == Tail(run.assetFiles)
        nextPc == ImportPhase(rest, run.iconFiles, run.bgFiles)
        parsed == ParseAssetPath(path)
        bytes == ZipData(run.zip, path)
        res == StoreAsset(store, n, bytes, AssetsPrefix \o parsed.assetId \o Dot \o parsed.ext,
                          outcome[2], outcome[3])
        seen == [run EXCEPT !.assetFiles = rest, !.processed = @ \cup {path},
                            !.saveFailed = IF parsed.ok /\ outcome[1] /\ ~outcome[2]
                                           THEN @ \cup {path} ELSE @]
    IN IF ~parsed.ok
       THEN [run |-> [seen EXCEPT !.pc = nextPc], store |-> store, n |-> n, spent |-> 0]
       ELSE IF ~outcome[1] \/ res.thrown
       THEN [run |-> IterationFailed(seen, path, nextPc), store |-> store, n |-> n,
             spent |-> 1]
       ELSE [run |-> [seen EXCEPT
                        !.pc = nextPc,
                        !.written = @ \cup {<<res.key, bytes>>},
                        !.moduleAssets = GroupPush(@, parsed.moduleId,
                                                   <<parsed.assetId, res.key, parsed.ext>>)],
             store |-> res.store, n |-> res.n,
             spent |-> IF outcome = <<TRUE, TRUE, TRUE>> THEN 0 ELSE 1]

\* importedSettings.personas?.[personaIndex]
HasPersona(settings, personaIndex) ==
    Has(settings, "personas") /\ personaIndex + 1 <= Len(settings.personas)

SetPersonaIcon(settings, personaIndex, storageKey) ==
    IF HasPersona(settings, personaIndex)
    THEN [settings EXCEPT !["personas"][personaIndex + 1] = Put(@, "icon", storageKey)]
    ELSE settings

\* one iteration of the persona icon loop
AfterIconFile(run, store, n, outcome) ==
    LET path == Head(run.iconFiles)
        rest == Tail(run.iconFiles)
        nextPc == ImportPhase(<<>>, rest, run.bgFiles)
        parsed == ParseIconPath(path)
        bytes == ZipData(run.zip, path)
        res == StoreAsset(store, n, bytes,
                          <<"persona-icon-", ToStr(parsed.personaIndex), ".">> \o parsed.ext,
                          outcome[2], outcome[3])
        seen == [run EXCEPT !.iconFiles = rest, !.processed = @ \cup {path},
                            !.saveFailed = IF parsed.ok /\ outcome[1] /\ ~outcome[2]
                                           THEN @ \cup {path} ELSE @]
    IN IF ~parsed.ok
       THEN [run |-> [seen EXCEPT !.pc = nextPc], store |-> store, n |-> n, spent |-> 0]
       ELSE IF ~outcome[1] \/ res.thrown
       THEN [run |-> IterationFailed(seen, path, nextPc), store |-> store, n |-> n,
             spent |-> 1]
       ELSE [run |-> [seen EXCEPT
                        !.pc = nextPc,
                        !.written = @ \cup {<<res.key, bytes>>},
                        !.importedSettings = SetPersonaIcon(@, parsed.personaIndex, res.key)],
             store |-> res.store, n |-> res.n,
             spent |-> IF outcome = <<TRUE, TRUE, TRUE>> THEN 0 ELSE 1]

\* the custom background block: the first file under custom-background/
AfterBackgroundFile(run, store, n, outcome) ==
    LET path == Head(run.bgFiles)
        ext == ParseBackgroundExt(path)
        bytes == ZipData(run.zip, path)
        res == StoreAsset(store, n, bytes, AssetsPrefix \o <<"custom-background", ".">> \o ext,
                          outcome[2], outcome[3])
        seen == [run EXCEPT !.bgFiles = <<>>, !.processed = @ \cup {path},
                            !.saveFailed = IF outcome[1] /\ ~outcome[2]
                                           THEN @ \cup {path} ELSE @]
    IN IF ~outcome[1] \/ res.thrown
       THEN [run |-> IterationFailed(seen, path, "commit"), store |-> store, n |-> n,
             spent |-> 1]
       ELSE [run |-> [seen EXCEPT
                        !.pc = "commit",
                        !.written = @ \cup {<<res.key, bytes>>},
                        !.importedSettings = Put(@, "customBackground", res.key)],
             store |-> res.store, n |-> res.n,
             spent |-> IF outcome = <<TRUE, TRUE, TRUE>> THEN 0 ELSE 1]

\* the re-attach step appending to the assets the live database's module has
AttachAssetsAppending(modules, grouped) ==
    [i \in 1..Len(modules) |->
        LET live == IF Has(db, "modules") /\ i <= Len(db.modules) /\ Has(db.modules[i], "assets")
                    THEN db.modules[i].assets ELSE <<>>
        IN IF GroupOf(grouped, modules[i].id) # <<>>
           THEN Put(modules[i], "assets", live \o GroupOf(grouped, modules[i].id))
           ELSE modules[i]]

\* importedSettings.modules.map: the grouped assets re-attached
AttachAssets(modules, grouped) ==
    [i \in 1..Len(modules) |->
        IF GroupOf(grouped, modules[i].id) # <<>>
        THEN Put(modules[i], "assets", GroupOf(grouped, modules[i].id))
        ELSE modules[i]]

\* RestoreCharacters that keeps what the snapshot itself carries
RestoreCharactersIfAbsent(settings, run) ==
    LET s1 == IF Has(settings, "characters") THEN settings
              ELSE Put(settings, "characters", run.currentCharacters)
    IN IF Has(s1, "characterOrder") THEN s1
       ELSE Put(s1, "characterOrder", run.currentCharacterOrder)

\* characters and characterOrder spliced back
RestoreCharacters(settings, run) ==
    Put(Put(settings, "characters", run.currentCharacters),
        "characterOrder", run.currentCharacterOrder)

\* the account step without the operator's choice: the live account always wins
RestoreAccountAlways(settings, run) ==
    IF variant = "v3" /\ run.currentAccount # Undefined
    THEN Put(settings, "account", run.currentAccount)
    ELSE settings

\* the account step left out: the archive's account is always committed
RestoreAccountFromArchive(settings, run) == settings

\* the account step of the v3 handler; the legacy handler has none
RestoreAccount(settings, run) ==
    IF variant = "v3" /\ run.preserveAccount /\ run.currentAccount # Undefined
    THEN Put(settings, "account", run.currentAccount)
    ELSE settings

\* the object handed to setDatabase (v3) or setDatabaseLite (legacy)
FinalSettings(run) ==
    LET s1 == Delete(Delete(Delete(run.importedSettings, "exportDate"), "exportVersion"),
                     "pluginName")
        s2 == IF Has(s1, "modules")
              THEN Put(s1, "modules", AttachAssets(s1.modules, run.moduleAssets))
              ELSE s1
        s3 == RestoreAccount(RestoreCharacters(s2, run), run)
    IN IF variant = "v3" THEN Delete(s3, "accountExcluded") ELSE s3

\* where the handler stands once its synchronous stretch is through: the
\* commit and the success alert, the top-level catch, or the next await
Settle(run) ==
    IF run.pc = "commit"
    THEN /\ db' = FinalSettings(run)
         /\ importRun' = [run EXCEPT !.pc = "done", !.alert = "importSuccess",
                                     !.importedSettings = FinalSettings(run),
                                     !.setDatabaseCalls = @ + 1]
    ELSE IF run.pc = "failed"
    THEN /\ db' = db
         /\ importRun' = [run EXCEPT !.pc = "done", !.alert = "importFailed"]
    ELSE /\ db' = db
         /\ importRun' = run

\* the values the dialog can resolve preserveAccount to when Import is clicked
DialogChoices(hasCurrentAccount, accountExcluded) ==
    IF variant # "v3" THEN {FALSE}
    ELSE IF ~hasCurrentAccount THEN {FALSE}
    ELSE IF accountExcluded THEN {TRUE}
    ELSE BOOLEAN

AccountExcluded(settings) ==
    Has(settings, "accountExcluded") /\ settings.accountExcluded

\* the handler up to the confirmation dialog
Opened(file) ==
    IF Readable(file)
    THEN [ImportIdle EXCEPT
            !.pc = "dialog",
            !.zip = file,
            !.importedSettings = JSONparse(file.settingsText),
            !.hasCurrentAccount = variant = "v3" /\ Truthy(db, "account"),
            !.before = [db |-> db, store |-> assetStore]]
    ELSE [ImportIdle EXCEPT
            !.pc = "failed",
            !.zip = file,
            !.before = [db |-> db, store |-> assetStore]]

\* Cancel reported as a failure
DeclinedAsError(run) == [run EXCEPT !.pc = "failed"]

\* Cancel: the handler returns
Declined(run) == [run EXCEPT !.pc = "cancelled"]

\* the handler from the confirmed dialog to the first asset
Confirmed(run, preserveAccount) ==
    LET assetFiles == FilesUnder(run.zip.files, <<"module-assets", "/">>)
        iconFiles == FilesUnder(run.zip.files, <<"persona-icons", "/">>)
        bgFiles == FilesUnder(run.zip.files, <<"custom-background", "/">>)
    IN [run EXCEPT
          !.pc = ImportPhase(assetFiles, iconFiles, bgFiles),
          !.preserveAccount = preserveAccount,
          !.currentCharacters = Get(db, "characters"),
          !.currentCharacterOrder = Get(db, "characterOrder"),
          !.currentAccount = Get(db, "account"),
          !.dbRead = db,
          !.assetFiles = assetFiles,
          !.iconFiles = iconFiles,
          !.bgFiles = bgFiles]

\* the files the picker offers: the archive the export delivered, or, where
\* nothing was exported, the hand-made ones
\* the handler reads characters, characterOrder and account of the live
\* database only, so the hand-made files are picked where the live database
\* has the scenario's modules and personas
Pickable ==
    IF archive.isZip THEN {archive}
    ELSE IF HasScenarioAssets(db) THEN HandmadeArchives
    ELSE {}

\* a file is picked.  The export call has returned by then and its locals
\* are gone.
ImportOpen ==
    /\ importRun.pc = "idle"
    /\ exportRun.pc \in {"idle", "done"}
    /\ \E file \in Pickable : Settle(Opened(file))
    /\ exportRun' = ExportIdle
    /\ UNCHANGED <<sideVars, assetStore, isTauri, hasForage, shim, variant, nextKey, archive, exportedFrom,
                   faults>>

\* the operator answers the dialog
ImportDialog ==
    /\ importRun.pc = "dialog"
    /\ \E confirmed \in BOOLEAN,
          preserveAccount \in DialogChoices(importRun.hasCurrentAccount,
                                            AccountExcluded(importRun.importedSettings)) :
          IF confirmed
          THEN Settle(Confirmed(importRun, preserveAccount))
          ELSE Settle(Declined([importRun EXCEPT !.declined = TRUE]))
    /\ UNCHANGED <<sideVars, assetStore, isTauri, hasForage, shim, variant, nextKey, exportRun, archive,
                   exportedFrom, faults>>

\* the operator picks the same file once more after a committed import that
\* preserved the account and in which nothing failed; first keeps what the
\* first import committed
ImportAgain ==
    /\ importRun.pc = "done"
    /\ importRun.alert = "importSuccess"
    /\ importRun.round = 1
    /\ faults = 0
    /\ variant = "v3"
    /\ importRun.preserveAccount
    /\ Settle([Opened(importRun.zip) EXCEPT !.round = 2, !.first = db])
    /\ UNCHANGED <<sideVars, assetStore, isTauri, hasForage, shim, variant, nextKey, exportRun, archive,
                   exportedFrom, faults>>

ImportModuleAsset ==
    /\ importRun.pc = "moduleAssets"
    /\ \E outcome \in RestoreOutcomes(faults < MaxFaults) :
          LET r == AfterAssetFile(importRun, assetStore, nextKey, outcome)
          IN /\ Settle(r.run)
             /\ assetStore' = r.store
             /\ nextKey' = r.n
             /\ faults' = faults + r.spent
    /\ UNCHANGED <<sideVars, isTauri, hasForage, shim, variant, exportRun, archive, exportedFrom>>

ImportPersonaIcon ==
    /\ importRun.pc = "personaIcons"
    /\ \E outcome \in RestoreOutcomes(faults < MaxFaults) :
          LET r == AfterIconFile(importRun, assetStore, nextKey, outcome)
          IN /\ Settle(r.run)
             /\ assetStore' = r.store
             /\ nextKey' = r.n
             /\ faults' = faults + r.spent
    /\ UNCHANGED <<sideVars, isTauri, hasForage, shim, variant, exportRun, archive, exportedFrom>>

ImportBackground ==
    /\ importRun.pc = "customBackground"
    /\ \E outcome \in RestoreOutcomes(faults < MaxFaults) :
          LET r == AfterBackgroundFile(importRun, assetStore, nextKey, outcome)
          IN /\ Settle(r.run)
             /\ assetStore' = r.store
             /\ nextKey' = r.n
             /\ faults' = faults + r.spent
    /\ UNCHANGED <<sideVars, isTauri, hasForage, shim, variant, exportRun, archive, exportedFrom>>

----------------------------------------------------------------------------
(* The host around the plugin *)

\* the database of another installation the archive is carried to
OtherDatabase ==
    [characters |-> "fresh-chars", characterOrder |-> "order-fresh",
     account |-> "token-y", theme |-> "light",
     modules |-> <<>>, personas |-> <<>>]

\* the operator moves to another installation between export and import
HostSwitchInstall ==
    /\ exportRun.pc = "done"
    /\ importRun.pc = "idle"
    /\ archive.isZip
    /\ HasScenarioAssets(db)
    /\ db' = OtherDatabase
    /\ assetStore' = EmptyObject
    /\ exportRun' = [ExportIdle EXCEPT !.pc = "done"]
    /\ UNCHANGED <<sideVars, isTauri, hasForage, shim, variant, nextKey, archive, exportedFrom,
                   importRun, faults>>

\* the host itself replaces characters and characterOrder in the live database
\* (a character is added, the list is reordered) while the import handler is
\* suspended at one of its awaits between getDatabase() and setDatabase()
HostReplaceCharacters ==
    /\ importRun.pc \in {"moduleAssets", "personaIcons", "background"}
    /\ Get(db, "characters") # "host-latest"
    /\ db' = Put(Put(db, "characters", "host-latest"), "characterOrder", "order-latest")
    /\ UNCHANGED <<sideVars, assetStore, isTauri, hasForage, shim, variant, nextKey, exportRun,
                   archive, exportedFrom, importRun, faults>>

----------------------------------------------------------------------------
(* Storage shim, getItem strategy by strategy *)

\* what one backing strategy can hand back: bytes, nothing, or an exception
Bytes(b) == [kind |-> "bytes", bytes |-> b]
Null == [kind |-> "null"]
Throws == [kind |-> "throw"]

\* the environment of one getItem(key) call
ShimInputs ==
    [fileSrc : {"throw", "empty", "url"},
     fetch : {"reject", "notOk", "ok"},
     body : {Throws, Bytes(<<>>), Bytes(<<1>>)},
     forage : {Throws, Null, Bytes(<<>>), Bytes(<<2>>)},
     idb : {"openThrows", "openError", "noStore", "readError", "read"},
     idbResult : {Null, Bytes(<<>>), Bytes(<<3>>)}]

ShimIdle == [pc |-> "idle", tried |-> <<>>, result |-> Null,
             key |-> <<>>, value |-> <<>>, writeOk |-> TRUE,
             write |-> [thrown |-> FALSE, store |-> EmptyObject, via |-> "none",
                        error |-> "none"],
             in |-> [fileSrc |-> "empty", fetch |-> "ok", body |-> Throws,
                     forage |-> Null, idb |-> "noStore", idbResult |-> Null]]

\* a strategy's outcome: it returned data, it fell through, or it threw
Found(b) == [kind |-> "found", bytes |-> b]
FellThrough == [kind |-> "none"]
Threw == [kind |-> "threw"]

\* data && data.length > 0
NonEmpty(value) == value.kind = "bytes" /\ value.bytes # <<>>

\* Strategy 1, the body of its try block
FileSrcStrategy(in) ==
    IF in.fileSrc = "throw" THEN Threw
    ELSE IF in.fileSrc = "empty" THEN FellThrough
    ELSE IF in.fetch = "reject" THEN Threw
    ELSE IF in.fetch = "notOk" THEN FellThrough
    ELSE IF in.body = Throws THEN Threw
    ELSE Found(in.body.bytes)

\* Strategy 2, the body of its try block
ForageStrategy(in) ==
    IF in.forage = Throws THEN Threw
    ELSE IF NonEmpty(in.forage) THEN Found(in.forage.bytes)
    ELSE FellThrough

\* what the IndexedDB promise settles to
IndexedDBPromise(in) ==
    IF in.idb = "openThrows" THEN Throws
    ELSE IF in.idb \in {"openError", "noStore", "readError"} THEN Null
    ELSE in.idbResult

\* Strategy 3, the body of its try block
IndexedDBStrategy(in) ==
    IF IndexedDBPromise(in) = Throws THEN Threw
    ELSE IF NonEmpty(IndexedDBPromise(in)) THEN Found(IndexedDBPromise(in).bytes)
    ELSE FellThrough

\* a strategy without its try/catch: the exception leaves getItem
Uncaught(outcome) == outcome

\* the catch block of a strategy: the warning is logged, evaluation goes on
Caught(outcome) == IF outcome = Threw THEN FellThrough ELSE outcome

\* the strategy that follows: forageStorage if present, IndexedDB outside
\* Tauri, else the final return null
AfterFileSrc == IF hasForage THEN "forage" ELSE IF isTauri THEN "resolved" ELSE "indexedDB"
AfterForage == IF isTauri THEN "resolved" ELSE "indexedDB"

\* getItem after one strategy with the given outcome
ShimStep(call, name, outcome, nextPc) ==
    IF outcome.kind = "found"
    THEN [call EXCEPT !.pc = "resolved", !.tried = Append(@, name),
                      !.result = Bytes(outcome.bytes)]
    ELSE IF outcome.kind = "threw"
    THEN [call EXCEPT !.pc = "rejected", !.tried = Append(@, name)]
    ELSE [call EXCEPT !.pc = nextPc, !.tried = Append(@, name), !.result = Null]

GetItemFileSrc ==
    /\ shim.pc = "fileSrc"
    /\ shim' = ShimStep(shim, "fileSrc", Caught(FileSrcStrategy(shim.in)), AfterFileSrc)
    /\ UNCHANGED <<sideVars, db, assetStore, isTauri, hasForage, variant, nextKey,
                   exportRun, archive, exportedFrom, importRun, faults>>

GetItemForage ==
    /\ shim.pc = "forage"
    /\ shim' = ShimStep(shim, "forage", Caught(ForageStrategy(shim.in)), AfterForage)
    /\ UNCHANGED <<sideVars, db, assetStore, isTauri, hasForage, variant, nextKey,
                   exportRun, archive, exportedFrom, importRun, faults>>

GetItemIndexedDB ==
    /\ shim.pc = "indexedDB"
    /\ shim' = ShimStep(shim, "indexedDB", Caught(IndexedDBStrategy(shim.in)), "resolved")
    /\ UNCHANGED <<sideVars, db, assetStore, isTauri, hasForage, variant, nextKey,
                   exportRun, archive, exportedFrom, importRun, faults>>

\* one setItem(key, value) call on an empty backing store
ShimSetItem ==
    /\ shim.pc = "setItem"
    /\ LET w == SetItem(EmptyObject, shim.key, shim.value, shim.writeOk)
       IN shim' = [shim EXCEPT !.pc = IF w.thrown THEN "writeRejected" ELSE "written",
                               !.write = w]
    /\ UNCHANGED <<sideVars, db, assetStore, isTauri, hasForage, variant, nextKey,
                   exportRun, archive, exportedFrom, importRun, faults>>

\* the setItem calls explored: two keys, two values, the backend accepting or not
SetItemCalls ==
    {[ShimIdle EXCEPT !.pc = "setItem", !.key = k, !.value = v, !.writeOk = ok] :
        k \in {AssetsPrefix \o <<"icon1", ".", "png">>, <<"persona-icon-0", ".", "png">>},
        v \in {<<137, 80, 78>>, <<>>},
        ok \in BOOLEAN}

\* calls of startAutoSwitch suspended at once
MaxStarts == 2

\* intervals the window creates in one run
MaxIntervals == 3

\* the character the host reports as current, "null" for none
CurrentCharacters == {"null", "alice", "bob"}

\* the backup plugin at rest, on the database of the concrete scenario
BackupIdle ==
    /\ isTauri = FALSE
    /\ hasForage = TRUE
    /\ db = BaseDatabase
    /\ assetStore = InitialStore
    /\ variant = "v3"
    /\ nextKey = 0
    /\ exportRun = ExportIdle
    /\ archive = NoArchive
    /\ exportedFrom = [db |-> EmptyObject, store |-> EmptyObject]
    /\ importRun = ImportIdle
    /\ faults = 0
    /\ shim = ShimIdle

-----------------------------------------------------------------------------
(* Theme-preset plugin: automatic theme switching *)

\* the module state of auto-switch before the plugin is initialised.
\* async tells the API v3.0 module, whose functions await, from the older
\* synchronous one; timers are the window's live intervals, starts the calls of
\* startAutoSwitch suspended at their first check
AutoIdle ==
    [async |-> TRUE, autoSwitch |-> "false", autoSwitchInterval |-> 0,
     lastCharacterName |-> "null", timers |-> {}, created |-> 0, starts |-> 0,
     initialised |-> FALSE]

\* getAutoSwitchEnabled
GetAutoSwitchEnabled(a) == a.autoSwitch = "true"

\* checkAndSwitchTheme with char the host's current character: the module
\* remembers the character it last switched for
CheckAndSwitchTheme(a, char) ==
    IF ~GetAutoSwitchEnabled(a) \/ char = "null" \/ char = a.lastCharacterName
    THEN a
    ELSE [a EXCEPT !.lastCharacterName = char]

\* the rest of startAutoSwitch after the first check: window.setInterval
SetInterval(a) ==
    [a EXCEPT !.created = @ + 1,
              !.timers = @ \cup {a.created + 1},
              !.autoSwitchInterval = a.created + 1]

\* startAutoSwitch up to its first await
StartAutoSwitch(a) ==
    IF a.autoSwitchInterval # 0 THEN a
    ELSE IF a.async THEN [a EXCEPT !.starts = @ + 1]
    ELSE SetInterval(a)

\* stopAutoSwitch
StopAutoSwitch(a) ==
    IF a.autoSwitchInterval # 0
    THEN [a EXCEPT !.timers = @ \ {a.autoSwitchInterval},
                   !.autoSwitchInterval = 0,
                   !.lastCharacterName = "null"]
    ELSE a

\* calls of startAutoSwitch the model lets wait at once, intervals it lets
\* the window create
CanStart(a) == a.starts < MaxStarts /\ a.created + a.starts < MaxIntervals

InitAutoSwitch ==
    /\ ~auto.initialised
    /\ CanStart(auto)
    /\ auto' = [(IF GetAutoSwitchEnabled(auto) THEN StartAutoSwitch(auto) ELSE auto)
                  EXCEPT !.initialised = TRUE]
    /\ UNCHANGED <<backupVars, themes, page, bundle>>

SetAutoSwitchEnabled ==
    /\ CanStart(auto)
    /\ \E enabled \in BOOLEAN :
          LET a == [auto EXCEPT !.autoSwitch = IF enabled THEN "true" ELSE "false"]
          IN auto' = IF enabled THEN StartAutoSwitch(a) ELSE StopAutoSwitch(a)
    /\ UNCHANGED <<backupVars, themes, page, bundle>>

\* the first check of a suspended startAutoSwitch completes and the call goes on
StartAutoSwitchResume ==
    /\ auto.starts > 0
    /\ \E char \in CurrentCharacters :
          auto' = SetInterval([CheckAndSwitchTheme(auto, char) EXCEPT !.starts = @ - 1])
    /\ UNCHANGED <<backupVars, themes, page, bundle>>

\* the unload callback, or the settings toggle switched off
StopAutoSwitchCall ==
    /\ auto.initialised
    /\ auto' = StopAutoSwitch(auto)
    /\ UNCHANGED <<backupVars, themes, page, bundle>>

\* a live interval fires
IntervalTick ==
    /\ auto.timers # {}
    /\ \E char \in CurrentCharacters : auto' = CheckAndSwitchTheme(auto, char)
    /\ UNCHANGED <<backupVars, themes, page, bundle>>

-----------------------------------------------------------------------------
(* Theme-preset plugin: preset storage (API v3.0, pluginStorage) *)

\* preset names and character names an operator types or picks
PresetNames == {"A", "B"}
CharacterNames == {"alice"}

\* the plugin on a fresh installation: nothing in pluginStorage, nothing in
\* the old argument storage.  stale holds the preset list a handler was given
\* by getPresets() before it was suspended; last is the call that returned last
ThemesIdle ==
    [storage |-> EmptyObject,
     args |-> [presets |-> <<>>, characterThemeMap |-> EmptyObject,
               defaultTheme |-> "", autoSwitch |-> ""],
     stale |-> {}, failures |-> 0,
     last |-> [op |-> "none", result |-> "none", fresh |-> TRUE]]

\* what the previous plugin version left in the argument storage
ArgumentStorages ==
    {ThemesIdle.args,
     [presets |-> <<"A">>, characterThemeMap |-> ("alice" :> "A"),
      defaultTheme |-> "A", autoSwitch |-> "true"]}

\* getPresets, getCharacterThemeMap, getDefaultTheme
GetPresets(t) == IF Has(t.storage, "presets") THEN t.storage.presets ELSE <<>>
GetCharacterThemeMap(t) ==
    IF Has(t.storage, "characterThemeMap") THEN t.storage.characterThemeMap ELSE EmptyObject
GetDefaultTheme(t) == IF Has(t.storage, "defaultTheme") THEN t.storage.defaultTheme ELSE ""

\* the names of a preset list
Names(presets) == {presets[i] : i \in 1..Len(presets)}

\* whether pluginStorage.setItem may reject this time; rejected writes and
\* suspended handlers are explored one at a time
SetItemResults(t) ==
    IF t.failures < MaxFaults /\ t.stale = {} THEN BOOLEAN ELSE {TRUE}

\* the preset list a handler works on: the stored one, or the one it was
\* given before it was suspended
Reads(t) == {GetPresets(t)} \cup t.stale

\* savePresets / saveCharacterThemeMap: a rejected setItem is logged, not thrown
SaveItem(t, key, value, ok) ==
    IF ok THEN [t EXCEPT !.storage = Put(@, key, value)]
    ELSE [t EXCEPT !.failures = @ + 1]

\* the read of a call that does not read the preset list
NoRead == <<"none">>

\* the call returns, and the list it was given is gone with it; fresh tells
\* a call that worked on the list as stored from one that worked on a list
\* the storage no longer holds
Returned(t, read, op, result) ==
    LET fresh == read = NoRead \/ read = GetPresets(themes)
    IN [t EXCEPT !.stale = IF fresh THEN @ ELSE @ \ {read},
                 !.last = [op |-> op, result |-> result, fresh |-> fresh]]

\* presets.filter(p => p.name !== name) without the test
Unfiltered(presets, name) == presets

\* presets.filter(p => p.name !== name)
Filtered(presets, name) == SelectSeq(presets, LAMBDA p : p # name)

\* presets.splice(fromIndex, 1) then presets.splice(toIndex, 0, removed)
Spliced(presets, fromIndex, toIndex) ==
    LET without == [i \in 1..(Len(presets) - 1) |->
                       IF i <= fromIndex THEN presets[i] ELSE presets[i + 1]]
    IN [i \in 1..Len(presets) |->
           IF i <= toIndex THEN without[i]
           ELSE IF i = toIndex + 1 THEN presets[fromIndex + 1]
           ELSE without[i - 1]]

\* renameThemePreset on the preset list read; okP, okM, okD are the results
\* of the three setItem calls
RenameThemePreset(t, read, oldName, newName, okP, okM, okD) ==
    IF oldName \notin Names(read)
    THEN Returned(t, read, "rename", "false")
    ELSE IF newName \in Names(read) /\ newName # oldName
    THEN Returned(t, read, "rename", "false")
    ELSE LET first == CHOOSE i \in 1..Len(read) :
                         read[i] = oldName /\ \A j \in 1..(i - 1) : read[j] # oldName
             t1 == SaveItem(t, "presets", [read EXCEPT ![first] = newName], okP)
             map == GetCharacterThemeMap(t1)
             updated == \E c \in DOMAIN map : map[c] = oldName
             t2 == IF updated
                   THEN SaveItem(t1, "characterThemeMap",
                                 [c \in DOMAIN map |->
                                     IF map[c] = oldName THEN newName ELSE map[c]], okM)
                   ELSE t1
         IN IF GetDefaultTheme(t2) # oldName
            THEN Returned(t2, read, "rename", "true")
            ELSE IF okD
            THEN Returned(SaveItem(t2, "defaultTheme", newName, TRUE), read,
                          "rename", "true")
            ELSE Returned(SaveItem(t2, "defaultTheme", newName, FALSE), read,
                          "rename", "thrown")

\* index.ts has run: the migration precedes every other call
Loaded == themes.last.op # "none"

\* a handler's getPresets() resolves and the handler is suspended
GetPresetsSuspended ==
    /\ themes.stale = {}
    /\ themes.failures = 0
    /\ Loaded
    /\ themes' = [themes EXCEPT !.stale = {GetPresets(themes)}]
    /\ UNCHANGED <<backupVars, auto, page, bundle>>

SaveCurrentTheme ==
    /\ Loaded
    /\ \E presetName \in PresetNames, read \in Reads(themes), ok \in SetItemResults(themes) :
          themes' = Returned(SaveItem(themes, "presets",
                                      Append(Filtered(read, presetName), presetName), ok),
                             read, "save", "preset")
    /\ UNCHANGED <<backupVars, auto, page, bundle>>

\* presetJson parses to an object named name; "" stands for a missing name
ImportThemePreset ==
    /\ Loaded
    /\ \E name \in PresetNames \cup {""}, read \in Reads(themes),
          ok \in SetItemResults(themes) :
          themes' = IF name = ""
                    THEN Returned(themes, NoRead, "import", "false")
                    ELSE Returned(SaveItem(themes, "presets",
                                           Append(Filtered(read, name), name), ok),
                                  read, "import", "true")
    /\ UNCHANGED <<backupVars, auto, page, bundle>>

RenameThemePresetCall ==
    /\ Loaded
    /\ \E oldName, newName \in PresetNames, read \in Reads(themes),
          okP, okM, okD \in SetItemResults(themes) :
          /\ themes.failures + (IF okP THEN 0 ELSE 1) + (IF okM THEN 0 ELSE 1)
                + (IF okD THEN 0 ELSE 1) <= MaxFaults
          /\ themes' = RenameThemePreset(themes, read, oldName, newName, okP, okM, okD)
    /\ UNCHANGED <<backupVars, auto, page, bundle>>

DeleteThemePreset ==
    /\ Loaded
    /\ \E presetName \in PresetNames, read \in Reads(themes), ok \in SetItemResults(themes) :
          themes' = IF Len(Filtered(read, presetName)) = Len(read)
                    THEN Returned(themes, read, "delete", "false")
                    ELSE Returned(SaveItem(themes, "presets", Filtered(read, presetName), ok),
                                  read, "delete", "true")
    /\ UNCHANGED <<backupVars, auto, page, bundle>>

ReorderPresets ==
    /\ Loaded
    /\ \E fromIndex, toIndex \in -1..2, read \in Reads(themes),
          ok \in SetItemResults(themes) :
          themes' = IF \/ fromIndex < 0 \/ fromIndex >= Len(read)
                       \/ toIndex < 0 \/ toIndex >= Len(read)
                    THEN Returned(themes, read, "reorder", "false")
                    ELSE Returned(SaveItem(themes, "presets",
                                           Spliced(read, fromIndex, toIndex), ok),
                                  read, "reorder", "true")
    /\ UNCHANGED <<backupVars, auto, page, bundle>>

\* the mapping form offers the names of the stored presets
AddCharacterThemeMapping ==
    /\ Loaded
    /\ \E charName \in CharacterNames, themeName \in Names(GetPresets(themes)),
          ok \in SetItemResults(themes) :
          themes' = Returned(SaveItem(themes, "characterThemeMap",
                                      Put(GetCharacterThemeMap(themes), charName, themeName),
                                      ok),
                             NoRead, "addMapping", "void")
    /\ UNCHANGED <<backupVars, auto, page, bundle>>

RemoveCharacterThemeMapping ==
    /\ Loaded
    /\ \E charName \in CharacterNames, ok \in SetItemResults(themes) :
          themes' = Returned(SaveItem(themes, "characterThemeMap",
                                      Delete(GetCharacterThemeMap(themes), charName), ok),
                             NoRead, "removeMapping", "void")
    /\ UNCHANGED <<backupVars, auto, page, bundle>>

\* the default-theme buttons: a stored preset, or '' to clear
SetDefaultTheme ==
    /\ Loaded
    /\ \E themeName \in Names(GetPresets(themes)) \cup {""},
          ok \in SetItemResults(themes) :
          themes' = Returned(SaveItem(themes, "defaultTheme", themeName, ok),
                             NoRead, "setDefault", IF ok THEN "void" ELSE "thrown")
    /\ UNCHANGED <<backupVars, auto, page, bundle>>

\* migrateFromArgumentStorage: the storage it leaves
Migrated(t) ==
    IF Has(t.storage, "presets") /\ t.storage.presets # <<>>
    THEN t
    ELSE LET a == t.args
             s0 == t.storage
             s1 == IF a.presets # <<>> THEN Put(s0, "presets", a.presets) ELSE s0
             s2 == IF DOMAIN a.characterThemeMap # {}
                   THEN Put(s1, "characterThemeMap", a.characterThemeMap) ELSE s1
             s3 == IF a.defaultTheme # "" THEN Put(s2, "defaultTheme", a.defaultTheme) ELSE s2
             s4 == IF a.autoSwitch # "" THEN Put(s3, "autoSwitch", a.autoSwitch) ELSE s3
         IN [t EXCEPT !.storage = s4]

\* the plugin is loaded: index.ts migrates before anything else
MigrateFromArgumentStorage ==
    /\ themes.stale = {}
    /\ themes' = Returned(Migrated(themes), NoRead, "migrate", "void")
    /\ UNCHANGED <<backupVars, auto, page, bundle>>

-----------------------------------------------------------------------------
(* Backup plugin: settings-page injection and unload *)

\* most h2 headings of a settings page
MaxHeadings == 2

\* i18n of ui.ts; KoAccount and KoFiles stand for the Korean words
I18n ==
    [en |-> [account |-> "Account", files |-> "Files"],
     ko |-> [account |-> "KoAccount", files |-> "KoFiles"],
     de |-> [account |-> "Konto", files |-> "Daten"]]

\* db.language as the host may have it; "fr" has no entry in i18n
Languages == {"en", "ko", "de", "fr"}

\* getLocalizedText
GetLocalizedText(lang, key) ==
    IF lang \in DOMAIN I18n THEN I18n[lang][key] ELSE I18n.en[key]

\* heading texts, word by word
HeadingPool ==
    {<<"Account", "&", "Files">>, <<"KoAccount", "&", "KoFiles">>,
     <<"Konto", "&", "Daten">>, <<"Display">>}

\* the h2 test of injectIntoSettingsPage
HeadingMatches(text, lang) ==
    \/ text = <<GetLocalizedText(lang, "account"), "&", GetLocalizedText(lang, "files")>>
    \/ \E i \in 1..Len(text) : text[i] \in {"Account", "KoAccount"}

\* the document before the plugin is loaded: no settings page, no container.
\* parent is where the h2 headings hang: in a section of the settings page,
\* or directly under body
PageIdle ==
    [loaded |-> FALSE, language |-> "en", polling |-> FALSE,
     settings |-> [open |-> FALSE, headings |-> <<>>, parent |-> "section"],
     container |-> [parent |-> "none", inDocument |-> FALSE],
     unloaded |-> "no"]

\* createUI: the container is built and the injection interval started
CreateUI ==
    /\ ~page.loaded
    /\ page' = [page EXCEPT !.loaded = TRUE, !.polling = TRUE]
    /\ UNCHANGED <<backupVars, themes, auto, bundle>>

\* the host shows the settings page
HostOpenSettings ==
    /\ ~page.settings.open
    /\ \E n \in 1..MaxHeadings, parent \in {"section", "body"} :
          \E headings \in [1..n -> HeadingPool] :
             page' = [page EXCEPT !.settings = [open |-> TRUE, headings |-> headings,
                                                parent |-> parent]]
    /\ UNCHANGED <<backupVars, themes, auto, bundle>>

\* the host leaves the settings page: its sections go, and the container
\* with them when it hangs in one
HostCloseSettings ==
    /\ page.settings.open
    /\ page' = [page EXCEPT
                  !.settings = PageIdle.settings,
                  !.container.inDocument = @ /\ page.container.parent = "body"]
    /\ UNCHANGED <<backupVars, themes, auto, bundle>>

\* the interval callback of injectIntoSettingsPage
InjectIntoSettingsPage ==
    /\ page.polling
    /\ page' =
          IF page.container.inDocument /\ page.container.parent # "none"
          THEN page
          ELSE IF /\ page.settings.open
                  /\ \E i \in 1..Len(page.settings.headings) :
                        HeadingMatches(page.settings.headings[i], page.language)
          THEN [page EXCEPT !.container = [parent |-> page.settings.parent,
                                           inDocument |-> TRUE]]
          ELSE page
    /\ UNCHANGED <<backupVars, themes, auto, bundle>>

\* the onUnload callback: document.body.removeChild throws for a container
\* that is not a child of body
Unloaded(p) ==
    IF p.container.inDocument /\ p.container.parent # "body"
    THEN [p EXCEPT !.polling = FALSE, !.unloaded = "threw"]
    ELSE [p EXCEPT !.polling = FALSE,
                   !.container = IF p.container.inDocument
                                 THEN [parent |-> "none", inDocument |-> FALSE] ELSE @,
                   !.unloaded = "done"]

Unload ==
    /\ page.loaded
    /\ page.unloaded = "no"
    /\ page' = Unloaded(page)
    /\ UNCHANGED <<backupVars, themes, auto, bundle>>

-----------------------------------------------------------------------------
(* Plugin builder: dependency order of the bundler *)

\* most local imports of one source file
MaxImports == 2

\* the paths parseImports can resolve to; missing.ts is not on disk
Files == <<"index.ts", "a.ts", "b.ts", "missing.ts">>
Existing == {"index.ts", "a.ts", "b.ts"}

\* the resolved imports of a file, in the order of their statements
ImportLists ==
    {SelectSeq(Files, LAMBDA f : f \in S) : S \in {T \in SUBSET {Files[i] : i \in 1..4} :
                                                     Cardinality(T) <= MaxImports}}
    \cup {SelectSeq(<<Files[4], Files[3], Files[2], Files[1]>>, LAMBDA f : f \in S) :
             S \in {T \in SUBSET {Files[i] : i \in 1..4} : Cardinality(T) <= MaxImports}}

\* the builder before buildDependencyOrder is called: a source tree without
\* imports, nothing visited; stack holds the open calls of visit, each with
\* the imports it still has to go through
BundleIdle ==
    [pc |-> "idle",
     imports |-> [f \in Existing |-> <<>>],
     visited |-> {}, fileInfos |-> <<>>, stack |-> <<>>]

\* visit(filePath) without the fs.existsSync test
VisitUnchecked(b, filePath) ==
    IF filePath \in b.visited THEN b
    ELSE [b EXCEPT !.visited = @ \cup {filePath},
                   !.stack = <<[filePath |-> filePath,
                                rest |-> IF filePath \in Existing
                                         THEN b.imports[filePath] ELSE <<>>]>> \o @]

\* visit(filePath) up to its loop over the imports
Visit(b, filePath) ==
    IF filePath \in b.visited THEN b
    ELSE IF filePath \notin Existing THEN [b EXCEPT !.visited = @ \cup {filePath}]
    ELSE [b EXCEPT !.visited = @ \cup {filePath},
                   !.stack = <<[filePath |-> filePath, rest |-> b.imports[filePath]]>> \o @]

\* buildDependencyOrder(entryPoint): visit(entryPoint) is entered
BuildDependencyOrder ==
    /\ bundle.pc = "idle"
    /\ bundle' = [Visit(bundle, "index.ts") EXCEPT !.pc = "visiting"]
    /\ UNCHANGED <<backupVars, themes, auto, page>>

\* the innermost visit goes on to its next import
VisitImport ==
    /\ bundle.pc = "visiting"
    /\ bundle.stack # <<>>
    /\ Head(bundle.stack).rest # <<>>
    /\ bundle' = Visit([bundle EXCEPT !.stack[1].rest = Tail(@)],
                       Head(Head(bundle.stack).rest))
    /\ UNCHANGED <<backupVars, themes, auto, page>>

\* the innermost visit is through its imports: fileInfos.push, return
PushFileInfo ==
    /\ bundle.pc = "visiting"
    /\ bundle.stack # <<>>
    /\ Head(bundle.stack).rest = <<>>
    /\ bundle' = [bundle EXCEPT
                    !.fileInfos = Append(@, Head(bundle.stack).filePath),
                    !.stack = Tail(@),
                    !.pc = IF Tail(bundle.stack) = <<>> THEN "done" ELSE @]
    /\ UNCHANGED <<backupVars, themes, auto, page>>

-----------------------------------------------------------------------------
(* The other programs at rest *)


\* none of the other programs has been started
SideIdle ==
    /\ themes = ThemesIdle
    /\ auto = AutoIdle
    /\ page = PageIdle
    /\ bundle = BundleIdle

----------------------------------------------------------------------------

\* every database where the host's key-value store is present, the database
\* of the concrete scenario where it is missing
Init ==
    /\ isTauri \in BOOLEAN
    /\ hasForage \in BOOLEAN
    /\ db \in (IF hasForage THEN Databases ELSE {BaseDatabase})
    /\ assetStore = InitialStore
    /\ variant \in {"v3", "legacy"}
    /\ nextKey = 0
    /\ exportRun = ExportIdle
    /\ archive = NoArchive
    /\ exportedFrom = [db |-> EmptyObject, store |-> EmptyObject]
    /\ importRun = ImportIdle
    /\ faults = 0
    /\ shim = ShimIdle
    /\ SideIdle

Next ==
    \/ ExportStart
    \/ ExportModuleAsset
    \/ ExportPersonaIcon
    \/ ExportBackground
    \/ ExportGenerate
    \/ ExportDeliver
    \/ HostSwitchInstall
    \/ ImportOpen
    \/ ImportDialog
    \/ ImportModuleAsset
    \/ ImportPersonaIcon
    \/ ImportBackground
    \/ ImportAgain

Spec == Init /\ [][Next]_vars

\* one getItem call in every environment
ShimInit ==
    /\ isTauri \in BOOLEAN
    /\ hasForage \in BOOLEAN
    /\ shim \in {[ShimIdle EXCEPT !.pc = "fileSrc", !.in = i] : i \in ShimInputs}
                \cup SetItemCalls
    /\ db = BaseDatabase
    /\ assetStore = InitialStore
    /\ variant = "v3"
    /\ nextKey = 0
    /\ exportRun = ExportIdle
    /\ archive = NoArchive
    /\ exportedFrom = [db |-> EmptyObject, store |-> EmptyObject]
    /\ importRun = ImportIdle
    /\ faults = 0
    /\ SideIdle

ShimNext ==
    \/ GetItemFileSrc
    \/ GetItemForage
    \/ GetItemIndexedDB
    \/ ShimSetItem

ShimSpec == ShimInit /\ [][ShimNext]_vars

----------------------------------------------------------------------------
(* Properties *)

Snapshot(z) == JSONparse(z.settingsText)

\* the database the delivered archive was exported from, and its storage
D == exportedFrom.db
DStore == exportedFrom.store

AssetsOf(module) == IF Has(module, "assets") THEN module.assets ELSE <<>>

\* a reference restored up to storage-key identity: the same bytes behind it
SameRef(old, new) ==
    IF StartsWith(old, AssetsPrefix)
    THEN new \in DOMAIN assetStore /\ old \in DOMAIN DStore /\ assetStore[new] = DStore[old]
    ELSE new = old

SameAssetList(old, new) ==
    /\ Len(new) = Len(old)
    /\ \A i \in 1..Len(old) :
          /\ new[i][1] = old[i][1]
          /\ new[i][3] = old[i][3]
          /\ SameRef(old[i][2], new[i][2])

SameModule(old, new) ==
    /\ new.id = old.id
    /\ new.name = old.name
    /\ SameAssetList(AssetsOf(old), AssetsOf(new))

SamePersona(old, new) ==
    /\ new.name = old.name
    /\ Has(new, "icon") <=> Has(old, "icon")
    /\ Has(old, "icon") => SameRef(old.icon, new.icon)

\* the v3 handler has committed the archive the export delivered, and no
\* read or write failed on the way
RoundTripDone ==
    /\ variant = "v3"
    /\ archive.isZip
    /\ importRun.zip = archive
    /\ importRun.alert = "importSuccess"
    /\ faults = 0

\* C1: import(export(D)) commits a database whose settings fields, other than
\* characters, characterOrder and account, equal those of D, every module
\* asset list with the same asset ids, the same extensions and the same bytes.
RoundTrip ==
    RoundTripDone =>
        /\ Has(db, "theme") /\ db.theme = D.theme
        /\ Has(db, "modules") /\ Len(db.modules) = Len(D.modules)
        /\ \A i \in 1..Len(D.modules) : SameModule(D.modules[i], db.modules[i])
        /\ Has(db, "personas") /\ Len(db.personas) = Len(D.personas)
        /\ \A i \in 1..Len(D.personas) : SamePersona(D.personas[i], db.personas[i])
        /\ Has(db, "customBackground") <=> Has(D, "customBackground")
        /\ Has(D, "customBackground") => SameRef(D.customBackground, db.customBackground)

\* C2 as stated: the snapshot has no characters and no characterOrder key, and
\* an account key exactly when excludeAccount was false.
ExclusionAccountIff ==
    exportRun.zip.hasSettings =>
        /\ ~Has(Snapshot(exportRun.zip), "characters")
        /\ ~Has(Snapshot(exportRun.zip), "characterOrder")
        /\ Has(Snapshot(exportRun.zip), "account") <=> ~exportRun.excludeAccount

\* C2 amended: the snapshot has no characters and no characterOrder key, and
\* an account key exactly when excludeAccount was false and the database
\* holds an account.
ExclusionInvariant ==
    exportRun.zip.hasSettings =>
        /\ ~Has(Snapshot(exportRun.zip), "characters")
        /\ ~Has(Snapshot(exportRun.zip), "characterOrder")
        /\ Has(Snapshot(exportRun.zip), "account")
              <=> (~exportRun.excludeAccount /\ Truthy(exportRun.db, "account"))
        /\ Snapshot(exportRun.zip).accountExcluded = exportRun.excludeAccount

\* an export with excludeAccount false of a database with characters and an account
ExclusionWitness ==
    /\ exportRun.zip.hasSettings
    /\ ~exportRun.excludeAccount
    /\ Has(exportRun.db, "characters")
    /\ Has(Snapshot(exportRun.zip), "account")

\* C3: the committed characters and characterOrder are those of the live
\* database as read before the restoration, whatever the account choice, the
\* restore failures and the archive's own characters keys.
CharactersPreserved ==
    importRun.alert = "importSuccess" =>
        /\ Has(db, "characters") /\ Has(db, "characterOrder")
        /\ db.characters = Get(importRun.dbRead, "characters")
        /\ db.characterOrder = Get(importRun.dbRead, "characterOrder")

\* a commit of an archive whose settings.json carries other characters, with
\* an asset dropped on the way
CharactersPreservedWitness ==
    /\ importRun.alert = "importSuccess"
    /\ Has(Snapshot(importRun.zip), "characters")
    /\ Snapshot(importRun.zip).characters # db.characters
    /\ importRun.dropped # {}

\* the keys this import wrote bytes under
WrittenKeys == {w[1] : w \in importRun.written}

\* a storage reference, as opposed to an external URL
IsAssetRef(key) == StartsWith(key, AssetsPrefix) \/ key \in WrittenKeys

\* the v3 handler has committed the archive the export delivered
ExportedArchiveCommitted ==
    /\ variant = "v3"
    /\ archive.isZip
    /\ importRun.zip = archive
    /\ importRun.alert = "importSuccess"

\* C4: after a committed import every asset reference of the committed
\* database (module asset entries, persona icons, customBackground) names a
\* key this import wrote; none is left at its export-time key, also when an
\* asset's export or restore failed.
KeyRewriteCorrect ==
    ExportedArchiveCommitted =>
        /\ \A i \in 1..Len(db.modules) :
              \A j \in 1..Len(AssetsOf(db.modules[i])) :
                  AssetsOf(db.modules[i])[j][2] \in WrittenKeys
        /\ \A i \in 1..Len(db.personas) :
              (Has(db.personas[i], "icon") /\ IsAssetRef(db.personas[i].icon))
                  => db.personas[i].icon \in WrittenKeys
        /\ (Has(db, "customBackground") /\ IsAssetRef(db.customBackground))
              => db.customBackground \in WrittenKeys

\* C5: under Tauri a failing saveAsset ends the import in the error alert,
\* with no commit and no success confirmation.
TauriSaveFailureAborts ==
    (isTauri /\ importRun.saveFailed # {} /\ importRun.pc = "done") =>
        /\ importRun.alert = "importFailed"
        /\ importRun.setDatabaseCalls = 0

Range(seq) == {seq[i] : i \in 1..Len(seq)}

\* the files the handler's loops go through in a run without errors
WorkOf(z) ==
    Range(FilesUnder(z.files, <<"module-assets", "/">>))
    \cup Range(FilesUnder(z.files, <<"persona-icons", "/">>))
    \cup (IF variant = "v3" /\ FilesUnder(z.files, <<"custom-background", "/">>) # <<>>
          THEN {FilesUnder(z.files, <<"custom-background", "/">>)[1]}
          ELSE {})

\* the restored module asset of the file at path is in its module's grouped list
Grouped(path) ==
    LET parsed == ParseAssetPath(path)
    IN \E k \in 1..Len(GroupOf(importRun.moduleAssets, parsed.moduleId)) :
          /\ GroupOf(importRun.moduleAssets, parsed.moduleId)[k][1] = parsed.assetId
          /\ GroupOf(importRun.moduleAssets, parsed.moduleId)[k][3] = parsed.ext

\* C6: an error while restoring one asset stays in that asset's iteration:
\* only that asset is missing from the grouped lists, every other file is
\* still processed, the database is committed and the success alert shown.
AssetErrorsContained ==
    importRun.dropped # {} =>
        /\ importRun.pc # "failed"
        /\ importRun.alert # "importFailed"
        /\ importRun.pc = "done" =>
              /\ importRun.alert = "importSuccess"
              /\ importRun.setDatabaseCalls = 1
              /\ db = importRun.importedSettings
              /\ importRun.processed = WorkOf(importRun.zip)
              /\ \A path \in Range(FilesUnder(importRun.zip.files, <<"module-assets", "/">>)) :
                    ParseAssetPath(path).ok =>
                        (Grouped(path) <=> path \notin importRun.dropped)

\* a committed import in which one module asset was dropped and another restored
AssetErrorsContainedWitness ==
    /\ importRun.pc = "done"
    /\ importRun.alert = "importSuccess"
    /\ \E p, q \in Range(FilesUnder(importRun.zip.files, <<"module-assets", "/">>)) :
          /\ p \in importRun.dropped
          /\ ParseAssetPath(q).ok /\ q \notin importRun.dropped /\ Grouped(q)
    /\ Cardinality(importRun.processed) >= 4

\* the archive path of the i-th module asset of the export's work list
ItemPath(i) ==
    ModuleAssetPath(exportRun.items[i].moduleId,
                    ModuleAssetFilename(exportRun.items[i].asset[1],
                                        exportRun.items[i].asset[3]))

\* C7: when exactly one of the N module assets fails to resolve or encode
\* (and nothing else fails), the archive holds settings.json and an entry for
\* each of the other N-1 assets, and the export ends without the failure alert.
PartialExportTolerated ==
    (exportRun.pc = "done" /\ Cardinality(exportRun.failed) = 1 /\ ~exportRun.otherFailed) =>
        /\ exportRun.alert # "exportFailed"
        /\ Readable(exportRun.zip)
        /\ \A i \in 1..Len(exportRun.items) :
              i \notin exportRun.failed => ZipHas(exportRun.zip, ItemPath(i))

\* three module assets, the second failed, the archive delivered
PartialExportWitness ==
    /\ exportRun.pc = "done"
    /\ Len(exportRun.items) = 3
    /\ exportRun.failed = {2}
    /\ exportRun.alert = "exportSuccess"
    /\ ZipHas(exportRun.zip, ItemPath(1)) /\ ZipHas(exportRun.zip, ItemPath(3))

\* not a ZIP, no settings.json, or a settings.json that is not JSON
Malformed(z) == ~z.isZip \/ ~z.hasSettings \/ z.settingsText.kind # "json"

\* C8: an import of a malformed archive ends in the error alert before any
\* mutation: no asset written, setDatabase never called.
MalformedAborts ==
    (importRun.pc # "idle" /\ Malformed(importRun.zip)) =>
        /\ importRun.pc = "done"
        /\ importRun.alert = "importFailed"
        /\ importRun.setDatabaseCalls = 0
        /\ importRun.written = {}
        /\ db = importRun.before.db
        /\ assetStore = importRun.before.store

\* a ZIP with asset files and no settings.json was picked
MalformedAbortsWitness ==
    /\ importRun.pc = "done"
    /\ importRun.zip.isZip /\ ~importRun.zip.hasSettings
    /\ importRun.zip.files # <<>>
    /\ importRun.alert = "importFailed"

\* C9: up to the operator's decision nothing is written; after Cancel asset
\* storage and database are as they were and no alert is shown.
NoEffectBeforeConfirm ==
    /\ importRun.pc = "dialog" =>
          /\ importRun.written = {} /\ importRun.setDatabaseCalls = 0
          /\ db = importRun.before.db /\ assetStore = importRun.before.store
    /\ importRun.declined =>
          /\ importRun.pc = "cancelled"
          /\ importRun.alert = "none"
          /\ importRun.written = {} /\ importRun.setDatabaseCalls = 0
          /\ db = importRun.before.db /\ assetStore = importRun.before.store

\* the operator declined an archive that carries asset files
NoEffectBeforeConfirmWitness ==
    /\ importRun.declined
    /\ importRun.zip.files # <<>>
    /\ Snapshot(importRun.zip) # importRun.before.db

\* C10: at commit the account follows the operator's choice: preserving with a
\* live account, it is the live account; not preserving, it is the
\* snapshot's account, and there is none when the snapshot has none.
AccountByChoice ==
    importRun.alert = "importSuccess" =>
        /\ (importRun.preserveAccount /\ Truthy(importRun.dbRead, "account"))
              => (Has(db, "account") /\ db.account = importRun.dbRead.account)
        /\ ~importRun.preserveAccount =>
              /\ Has(db, "account") <=> Has(Snapshot(importRun.zip), "account")
              /\ Has(db, "account") => db.account = Snapshot(importRun.zip).account

\* not preserving: the snapshot's account replaced another live account
AccountByChoiceWitness ==
    /\ importRun.alert = "importSuccess"
    /\ variant = "v3"
    /\ ~importRun.preserveAccount
    /\ Truthy(importRun.dbRead, "account")
    /\ Has(db, "account")
    /\ db.account # importRun.dbRead.account


\* the two databases agree on the account: both without, or the same value
SameAccount(a, b) ==
    /\ Has(a, "account") <=> Has(b, "account")
    /\ Has(a, "account") => a.account = b.account

\* C11 as stated: the committed account is the live account read before
\* restoration, whatever the archive's settings.json holds.
AccountNeverFromArchive ==
    importRun.alert = "importSuccess" => SameAccount(db, importRun.dbRead)

\* C11: the committed account is the live account read before restoration
\* whenever the operator chose to preserve it, whatever the archive holds; a
\* committed account that differs from the live one was not preserved and is
\* the archive snapshot's own account field.
AccountFromArchiveOnlyByChoice ==
    importRun.alert = "importSuccess" =>
        /\ importRun.preserveAccount => SameAccount(db, importRun.dbRead)
        /\ ~SameAccount(db, importRun.dbRead) =>
              /\ ~importRun.preserveAccount
              /\ SameAccount(db, Snapshot(importRun.zip))

\* preserving: the archive carries another account, the live one is committed
AccountFromArchiveWitness ==
    /\ importRun.alert = "importSuccess"
    /\ importRun.preserveAccount
    /\ Has(Snapshot(importRun.zip), "account")
    /\ Has(importRun.dbRead, "account")
    /\ Snapshot(importRun.zip).account # importRun.dbRead.account
    /\ db.account = importRun.dbRead.account


\* the non-empty bytes each strategy has to offer for this call, <<>> if none
UrlYield(in) ==
    IF in.fileSrc = "url" /\ in.fetch = "ok" /\ NonEmpty(in.body)
    THEN in.body.bytes ELSE <<>>
ForageYield(in) ==
    IF hasForage /\ NonEmpty(in.forage) THEN in.forage.bytes ELSE <<>>
IndexedDBYield(in) ==
    IF ~isTauri /\ in.idb = "read" /\ NonEmpty(in.idbResult)
    THEN in.idbResult.bytes ELSE <<>>

\* the yields that come after the URL accessor, in priority order
LaterYield(in) ==
    IF ForageYield(in) # <<>> THEN ForageYield(in) ELSE IndexedDBYield(in)

FirstYield(in) == IF UrlYield(in) # <<>> THEN UrlYield(in) ELSE LaterYield(in)

\* the strategies this environment has, in the fixed order
Strategies ==
    <<"fileSrc">> \o (IF hasForage THEN <<"forage">> ELSE <<>>)
                  \o (IF isTauri THEN <<>> ELSE <<"indexedDB">>)

\* C12: getItem goes through URL accessor, key-value store, IndexedDB (not in
\* Tauri) in this order and returns the first non-empty yield; it returns
\* null exactly when no strategy yields, and never an empty byte sequence.
GetItemFirstNonEmpty ==
    shim.pc = "resolved" =>
        /\ shim.tried = SubSeq(Strategies, 1, Len(shim.tried))
        /\ shim.result # Bytes(<<>>)
        /\ shim.result = (IF FirstYield(shim.in) = <<>> THEN Null
                          ELSE Bytes(FirstYield(shim.in)))

\* the URL accessor ended in an exception or a failed response
UrlFailed(in) ==
    \/ in.fileSrc = "throw"
    \/ in.fileSrc = "url" /\ in.fetch \in {"reject", "notOk"}
    \/ in.fileSrc = "url" /\ in.fetch = "ok" /\ in.body = Throws

\* C13: an exception or failed response in one strategy does not stop the
\* later ones, and getItem never rejects: every call resolves to bytes or null.
GetItemNeverRejects ==
    /\ shim.pc # "rejected"
    /\ shim.pc = "resolved" =>
          /\ shim.result.kind \in {"bytes", "null"}
          /\ shim.result = Null => shim.tried = Strategies
          /\ UrlFailed(shim.in) =>
                shim.result = (IF LaterYield(shim.in) = <<>> THEN Null
                               ELSE Bytes(LaterYield(shim.in)))
          /\ (shim.in.forage = Throws /\ UrlYield(shim.in) = <<>> /\ ~UrlFailed(shim.in)
                /\ shim.in.fileSrc = "empty")
                => shim.result = (IF IndexedDBYield(shim.in) = <<>> THEN Null
                                  ELSE Bytes(IndexedDBYield(shim.in)))

\* getFileSrc threw, the key-value store threw, IndexedDB delivered the bytes
GetItemNeverRejectsWitness ==
    /\ shim.pc = "resolved"
    /\ shim.in.fileSrc = "throw"
    /\ hasForage /\ shim.in.forage = Throws
    /\ shim.tried = <<"fileSrc", "forage", "indexedDB">>
    /\ shim.result = Bytes(<<3>>)


\* C14: setItem writes through the key-value store whenever one is present;
\* without one it rejects under Tauri with the 'not supported' error and
\* writes nothing; only outside Tauri without a key-value store does it
\* write to IndexedDB.
SetItemContract ==
    shim.pc \in {"written", "writeRejected"} =>
        /\ hasForage =>
              /\ shim.write.via = "forage"
              /\ shim.writeOk => (shim.pc = "written"
                                  /\ shim.write.store = Put(EmptyObject, shim.key, shim.value))
        /\ (~hasForage /\ isTauri) =>
              /\ shim.pc = "writeRejected"
              /\ shim.write.error = "notSupported"
              /\ shim.write.via = "none"
              /\ shim.write.store = EmptyObject
        /\ (~hasForage /\ ~isTauri) =>
              /\ shim.write.via = "indexedDB"
              /\ shim.writeOk => (shim.pc = "written"
                                  /\ shim.write.store = Put(EmptyObject, shim.key, shim.value))
        /\ shim.write.via = "indexedDB" => (~isTauri /\ ~hasForage)
        /\ shim.pc = "writeRejected" => shim.write.store = EmptyObject

\* Tauri without key-value store: the call was rejected as not supported
SetItemContractWitness ==
    /\ shim.pc = "writeRejected"
    /\ isTauri /\ ~hasForage
    /\ shim.writeOk
    /\ shim.write.error = "notSupported"


\* the same archive was committed a second time, both times preserving the
\* account, and no read or write failed
Reimported ==
    /\ importRun.round = 2
    /\ importRun.alert = "importSuccess"
    /\ importRun.preserveAccount
    /\ faults = 0

SameBytes(a, b) ==
    \/ a = b
    \/ /\ a \in DOMAIN assetStore /\ b \in DOMAIN assetStore
       /\ assetStore[a] = assetStore[b]

SameEntries(a, b) ==
    /\ Len(a) = Len(b)
    /\ \A i \in 1..Len(a) :
          a[i][1] = b[i][1] /\ a[i][3] = b[i][3] /\ SameBytes(a[i][2], b[i][2])

\* an object list (modules with key assets, personas with key icon) agrees
\* field by field, the asset references up to the assigned key
SameObjects(a, b) ==
    /\ Len(a) = Len(b)
    /\ \A i \in 1..Len(a) :
          /\ Delete(Delete(a[i], "assets"), "icon") = Delete(Delete(b[i], "assets"), "icon")
          /\ Has(a[i], "assets") <=> Has(b[i], "assets")
          /\ Has(a[i], "assets") => SameEntries(a[i].assets, b[i].assets)
          /\ Has(a[i], "icon") <=> Has(b[i], "icon")
          /\ Has(a[i], "icon") => SameBytes(a[i].icon, b[i].icon)

RestoredEntries ==
    IF Has(db, "modules")
    THEN UNION {Range(db.modules[i].assets) :
                  i \in {m \in 1..Len(db.modules) :
                           /\ Has(db.modules[m], "assets")
                           /\ GroupOf(importRun.moduleAssets, db.modules[m].id) # <<>>}}
    ELSE {}

\* the key the manual fallback writes an asset under
FallbackKey(entry) == AssetsPrefix \o entry[1] \o Dot \o entry[3]

\* the v3 handler committed the archive exported from the scenario's asset
\* ['icon1', 'assets/icon1.png', 'png'] of module m1
ScenarioImported ==
    /\ importRun.alert = "importSuccess"
    /\ archive.isZip /\ importRun.zip = archive
    /\ Has(db, "modules") /\ Len(db.modules) >= 1
    /\ D.modules[1] = Module(<<"m1">>, WithAssets(<<AssetIcon1>>))
    /\ Has(db.modules[1], "assets")

PathsSelfDescribing ==
    \A i \in 1..Len(exportRun.items) :
        ZipHas(exportRun.zip, ItemPath(i)) =>
            /\ ParseAssetPath(ItemPath(i)).ok
            /\ ParseAssetPath(ItemPath(i)).moduleId = exportRun.items[i].moduleId
            /\ ParseAssetPath(ItemPath(i)).assetId = exportRun.items[i].asset[1]
            /\ ParseAssetPath(ItemPath(i)).ext = exportRun.items[i].asset[3]


\* C18: the export, every read succeeding, holds exactly one entry
\* persona-icons/persona-<index>.<ext> for each persona with a local icon,
\* <index> its position in the personas list and <ext> the extension of its
\* icon; personas without icon or with an external URL have no entry.
PersonaIconEntries ==
    (exportRun.pc = "done" /\ exportRun.zip.hasSettings /\ faults = 0) =>
        /\ \A i \in 1..Len(exportRun.db.personas) :
              IsLocalIcon(exportRun.db.personas[i]) =>
                  ZipHas(exportRun.zip,
                         PersonaIconPath(i - 1, BackgroundExt(exportRun.db.personas[i].icon)))
        /\ Len(FilesUnder(exportRun.zip.files, <<"persona-icons", "/">>))
              = Cardinality({i \in 1..Len(exportRun.db.personas) :
                               IsLocalIcon(exportRun.db.personas[i])})


\* C19: the database committed from an archive the export produced holds none
\* of the export-only keys exportDate, exportVersion, pluginName and
\* accountExcluded, with either import handler.
MetadataRemoved ==
    (importRun.alert = "importSuccess" /\ archive.isZip /\ importRun.zip = archive) =>
        \A k \in {"exportDate", "exportVersion", "pluginName", "accountExcluded"} :
            ~Has(db, k)


\* this step of the import run called setDatabase (setDatabaseLite)
WroteDatabase == importRun'.setDatabaseCalls = importRun.setDatabaseCalls + 1

\* C20: an import run reads the database for preservation before it restores
\* any asset, writes it at most once, and that write comes after every
\* module-asset, persona-icon and custom-background step; a run that ends in
\* the error alert has written nothing to the database.
DatabaseWriteOrder ==
    [][/\ importRun'.setDatabaseCalls \in {0, 1}
       /\ importRun'.processed # {} =>
             /\ importRun'.dbRead = importRun'.before.db
             /\ importRun'.currentCharacters = Get(importRun'.before.db, "characters")
       /\ WroteDatabase =>
             /\ importRun.setDatabaseCalls = 0
             /\ importRun'.assetFiles = <<>> /\ importRun'.iconFiles = <<>>
             /\ importRun'.processed = WorkOf(importRun.zip)
             /\ importRun'.dbRead = db
             /\ importRun'.alert = "importSuccess"
       /\ (db' # db /\ db' # OtherDatabase) => WroteDatabase
       /\ importRun'.alert = "importFailed" =>
             (importRun'.setDatabaseCalls = 0 /\ db' = db)
      ]_vars

\* a run that restored module assets, a persona icon and the background and
\* then wrote the database once
DatabaseWriteOrderWitness ==
    /\ importRun.setDatabaseCalls = 1
    /\ importRun.pc = "done"
    /\ Cardinality(importRun.processed) >= 3
    /\ Cardinality(importRun.written) >= 3
    /\ db # importRun.before.db
    /\ importRun.dbRead = importRun.before.db


-----------------------------------------------------------------------------
(* C21: for every export, no module object in settings.json carries an
   'assets' key, while the module objects of the live database keep their
   asset lists exactly as the export found them: the strip acts on the
   snapshot's copy, not on the original. *)
SnapshotStripped ==
    (exportRun.zip.hasSettings /\ importRun = ImportIdle) =>
        /\ Has(Snapshot(exportRun.zip), "modules") =>
              \A i \in 1..Len(Snapshot(exportRun.zip).modules) :
                  ~Has(Snapshot(exportRun.zip).modules[i], "assets")
        /\ db = exportRun.db
        /\ Has(db, "modules") =>
              /\ Len(Snapshot(exportRun.zip).modules) = Len(db.modules)
              /\ \A i \in 1..Len(db.modules) :
                    Snapshot(exportRun.zip).modules[i] = Delete(db.modules[i], "assets")

\* an export wrote settings.json while a live module holds two assets
SnapshotStrippedWitness ==
    /\ exportRun.zip.hasSettings
    /\ importRun = ImportIdle
    /\ Has(db, "modules")
    /\ \E i \in 1..Len(db.modules) : Len(AssetsOf(db.modules[i])) = 2
    /\ \A i \in 1..Len(Snapshot(exportRun.zip).modules) :
          ~Has(Snapshot(exportRun.zip).modules[i], "assets")


-----------------------------------------------------------------------------
(* C22: export delivery goes through the share sheet, the anchor-click
   download and the new-tab open in that order; a later strategy is attempted
   only if every earlier one was unavailable or failed, so nothing runs after
   one that succeeded, and the 'download failed' alert is shown only when all
   three have failed. *)
DeliveryOrder == <<"share", "anchor", "window">>

DeliveryCascade ==
    LET t == exportRun.tried
    IN /\ Len(t) <= 3
       /\ \A i \in 1..Len(t) :
             /\ t[i].name = DeliveryOrder[i]
             /\ \A j \in 1..(i - 1) : t[j].outcome \in {"unavailable", "failed"}
       /\ exportRun.alert = "downloadFailed" =>
             /\ Len(t) = 3
             /\ \A i \in 1..3 : t[i].outcome \in {"unavailable", "failed"}
             /\ t[2].outcome = "failed" /\ t[3].outcome = "failed"

\* the share sheet failed, the anchor click threw, the new tab delivered
DeliveryCascadeWitness ==
    /\ exportRun.pc = "done"
    /\ exportRun.alert = "exportSuccess"
    /\ exportRun.tried = <<[name |-> "share", outcome |-> "failed"],
                           [name |-> "anchor", outcome |-> "failed"],
                           [name |-> "window", outcome |-> "ok"]>>


\* the import handler with the host writing to the live database meanwhile
RaceInit == Init /\ db = BaseDatabase

RaceNext ==
    \/ ExportStart
    \/ ExportModuleAsset
    \/ ExportPersonaIcon
    \/ ExportBackground
    \/ ExportGenerate
    \/ ExportDeliver
    \/ ImportOpen
    \/ ImportDialog
    \/ ImportModuleAsset
    \/ ImportPersonaIcon
    \/ ImportBackground
    \/ HostReplaceCharacters

RaceSpec == RaceInit /\ [][RaceNext]_vars

-----------------------------------------------------------------------------
(* C27: no lost update on characters.  The step that commits an import
   leaves characters and characterOrder as the live database holds them at
   that moment, so what the host wrote since the import's read survives. *)
NoLostUpdate ==
    [][(importRun.pc \in {"moduleAssets", "personaIcons", "background"}
        /\ importRun'.alert = "importSuccess")
       => /\ Get(db', "characters") = Get(db, "characters")
          /\ Get(db', "characterOrder") = Get(db, "characterOrder")]_vars


\* the auto-switch module under every order of its calls
AutoInit ==
    /\ auto \in {[AutoIdle EXCEPT !.async = v, !.autoSwitch = s] :
                    v \in BOOLEAN, s \in {"true", "false"}}
    /\ BackupIdle
    /\ themes = ThemesIdle
    /\ page = PageIdle
    /\ bundle = BundleIdle

AutoNext ==
    \/ InitAutoSwitch
    \/ SetAutoSwitchEnabled
    \/ StartAutoSwitchResume
    \/ StopAutoSwitchCall
    \/ IntervalTick

AutoSpec == AutoInit /\ [][AutoNext]_vars

-----------------------------------------------------------------------------
(* C23: auto-switch monitoring has at most one polling interval alive.
   Whatever the interleaving of startAutoSwitch, initAutoSwitch,
   setAutoSwitchEnabled and stopAutoSwitch, every interval the window still
   runs is the one recorded in autoSwitchInterval; every other interval ever
   created has been cleared. *)
OneInterval ==
    auto.timers \subseteq {auto.autoSwitchInterval}


\* the preset storage under every order of its calls, from a first load
ThemeInit ==
    /\ themes \in {[ThemesIdle EXCEPT !.args = a] : a \in ArgumentStorages}
    /\ BackupIdle
    /\ auto = AutoIdle
    /\ page = PageIdle
    /\ bundle = BundleIdle

ThemeNext ==
    \/ MigrateFromArgumentStorage
    \/ GetPresetsSuspended
    \/ SaveCurrentTheme
    \/ ImportThemePreset
    \/ RenameThemePresetCall
    \/ DeleteThemePreset
    \/ ReorderPresets
    \/ AddCharacterThemeMapping
    \/ RemoveCharacterThemeMapping
    \/ SetDefaultTheme

ThemeSpec == ThemeInit /\ [][ThemeNext]_vars

-----------------------------------------------------------------------------
(* C25: renameThemePreset returning true leaves no reference to oldName:
   the preset list holds newName and not oldName, no character is mapped to
   oldName any more and the default theme is not oldName; returning false, it
   has changed nothing in the storage.  Stated for a call that works on the
   stored list and renames to a different name. *)
RenameComplete ==
    [][\A oldName, newName \in PresetNames, okP, okM, okD \in BOOLEAN :
          (themes' = RenameThemePreset(themes, GetPresets(themes), oldName, newName,
                                       okP, okM, okD))
          => /\ (themes'.last.result = "true" /\ oldName # newName) =>
                   /\ newName \in Names(GetPresets(themes'))
                   /\ oldName \notin Names(GetPresets(themes'))
                   /\ \A c \in DOMAIN GetCharacterThemeMap(themes') :
                         GetCharacterThemeMap(themes')[c] # oldName
                   /\ GetDefaultTheme(themes') # oldName
             /\ themes'.last.result = "false" => themes'.storage = themes.storage]_vars

-----------------------------------------------------------------------------
(* C28: the names of the stored presets are pairwise distinct after any
   sequence and any interleaving of saveCurrentTheme, importThemePreset,
   renameThemePreset, deleteThemePreset and reorderPresets. *)
PresetNamesUnique ==
    \A i, j \in 1..Len(GetPresets(themes)) :
        GetPresets(themes)[i] = GetPresets(themes)[j] => i = j

\* a call that was given the list before another call changed it has written
\* its own list over two stored presets
PresetNamesUniqueWitness ==
    /\ Len(GetPresets(themes)) = 2
    /\ themes.last.op \in {"save", "import"}
    /\ ~themes.last.fresh

-----------------------------------------------------------------------------
(* C29: every theme name in the character-to-theme map and the default
   theme name an existing preset, after any sequence of preset save, import,
   rename and delete and of mapping and default-theme updates made with the
   names of existing presets. *)
ReferencesResolve ==
    /\ \A c \in DOMAIN GetCharacterThemeMap(themes) :
          GetCharacterThemeMap(themes)[c] \in Names(GetPresets(themes))
    /\ GetDefaultTheme(themes) \in Names(GetPresets(themes)) \cup {""}

-----------------------------------------------------------------------------
(* C30: migrateFromArgumentStorage never overwrites a value that is already
   in the plugin storage: presets, character map, default theme and
   auto-switch setting stored before the migration are the same after it. *)
MigrationKeepsStored ==
    [][(themes' = Returned(Migrated(themes), NoRead, "migrate", "void"))
       => \A k \in DOMAIN themes.storage : themes'.storage[k] = themes.storage[k]]_vars

\* the backup plugin's UI from load to unload, the host navigating meanwhile
PageInit ==
    /\ page \in {[PageIdle EXCEPT !.language = l] : l \in Languages}
    /\ BackupIdle
    /\ themes = ThemesIdle
    /\ auto = AutoIdle
    /\ bundle = BundleIdle

PageNext ==
    \/ CreateUI
    \/ HostOpenSettings
    \/ HostCloseSettings
    \/ InjectIntoSettingsPage
    \/ Unload

PageSpec == PageInit /\ [][PageNext]_vars

-----------------------------------------------------------------------------
(* C24: after the backup plugin's unload callback ran, the injection
   interval is cleared and the plugin's UI container is no longer attached to
   the document, wherever it had been injected. *)
UnloadCleansUp ==
    page.unloaded # "no" => ~page.polling /\ ~page.container.inDocument

\* one run of buildDependencyOrder on every source tree; the recursion is
\* synchronous, so a call that can go on does
BundleInit ==
    /\ bundle \in {[BundleIdle EXCEPT !.imports = g] : g \in [Existing -> ImportLists]}
    /\ BackupIdle
    /\ themes = ThemesIdle
    /\ auto = AutoIdle
    /\ page = PageIdle

BundleNext ==
    \/ BuildDependencyOrder
    \/ VisitImport
    \/ PushFileInfo

BundleSpec == BundleInit /\ [][BundleNext]_vars /\ WF_vars(BundleNext)

\* the files on disk that import chains lead to from the files in S
RECURSIVE ImportClosure(_)
ImportClosure(S) ==
    LET step == S \cup UNION {{bundle.imports[f][i] : i \in 1..Len(bundle.imports[f])} :
                            f \in S \cap Existing}
    IN IF step = S THEN S ELSE ImportClosure(step)

\* the files a file imports, directly or through others
ImportedBy(f) ==
    ImportClosure({bundle.imports[f][i] : i \in 1..Len(bundle.imports[f])})

Acyclic == \A f \in ImportClosure({"index.ts"}) \cap Existing : f \notin ImportedBy(f)

PositionOf(f) == CHOOSE i \in 1..Len(bundle.fileInfos) : bundle.fileInfos[i] = f

-----------------------------------------------------------------------------
(* C26: buildDependencyOrder terminates for every import graph, cyclic ones
   included, and returns each existing file reachable from the entry point
   exactly once; when the graph is acyclic every file comes after all the
   files it imports, and the entry point comes last. *)
DependencyOrder ==
    /\ (bundle.pc = "visiting") ~> (bundle.pc = "done")
    /\ [](bundle.pc = "done" =>
            /\ \A i, j \in 1..Len(bundle.fileInfos) :
                  bundle.fileInfos[i] = bundle.fileInfos[j] => i = j
            /\ {bundle.fileInfos[i] : i \in 1..Len(bundle.fileInfos)}
                  = ImportClosure({"index.ts"}) \cap Existing
            /\ bundle.fileInfos[Len(bundle.fileInfos)] = "index.ts"
            /\ Acyclic =>
                  \A f \in ImportClosure({"index.ts"}) \cap Existing :
                     \A g \in ImportedBy(f) \cap Existing : PositionOf(g) < PositionOf(f))

\* a finished run on a diamond: index.ts imports a.ts and b.ts, a.ts imports
\* b.ts and a file that is not on disk
DependencyOrderWitness ==
    /\ bundle.pc = "done"
    /\ bundle.imports["index.ts"] = <<"a.ts", "b.ts">>
    /\ bundle.imports["a.ts"] = <<"b.ts", "missing.ts">>
    /\ bundle.fileInfos = <<"b.ts", "a.ts", "index.ts">>

====
